---- MODULE Spec2Model ----
(***************************************************************************)
(* Dialectic message bus: the client connection manager                    *)
(* (server/src/ipc.rs, IPCCommunicator / IPCCommunicatorInner) and the     *)
(* message bus daemon (server/src/daemon.rs).                              *)
(*                                                                         *)
(* Spec        the connection manager: callers, the reader task, the       *)
(*             reconnect task and the timeout-cleanup tasks of one         *)
(*             IPCCommunicator, against a daemon that can be killed and    *)
(*             restarted.                                                  *)
(* FairSpec    Spec with the fairness the tokio runtime and the FIFO       *)
(*             tokio::sync::Mutex give to spawned tasks.                   *)
(* SpecDaemon  run_daemon_with_prefix / run_message_bus / handle_client.   *)
(***************************************************************************)
EXTENDS Integers, Sequences, FiniteSets, TLC

\* ---------------------------------------------------------------- bounds
MaxCalls == 1       \* send operations issued on the manager in one run
MaxWaiters == 2     \* wait_for_user_feedback calls made in one run
MaxReviews == 2     \* review ids in use
MaxInbox == 1       \* lines in flight from the bus to the reader
MaxOutbox == 1      \* lines in flight from the manager to the daemon
MaxKills == 1       \* times the daemon is killed in one run
MaxConns == MaxKills + 1   \* a socket is reopened only after a kill
NumDaemons == 2     \* run_daemon_with_prefix calls for one owner id and prefix
MaxClients == 2     \* connections made to the daemon in one run
MaxLines == 2       \* lines the clients write in one run
BacklogCapacity == 1   \* stands for broadcast::channel::<String>(1000)
MaxUnread == 2      \* lines a peer's socket holds before write_all waits
MaxFaults == 1      \* peers that end their connection in one run
MaxLen == 3         \* characters of a line before its terminator
MaxWriters == 2     \* callers of write_message in one run
MaxWire == 6        \* chunks written to one connection in one run
MaxSends == 2       \* envelopes the callers of all managers send in one run
MaxChan == 12       \* lines the bus carries in one run
Second == 2         \* units of time in one second

\* ------------------------------------------------------ program constants
MAX_RETRIES == 5
BASE_DELAY_MS == 100
\* run_message_bus, in units of time of which Second make one second
REAP_SLEEP == 1 * Second       \* tokio::time::sleep(Duration::from_secs(1))
PROBE_INTERVAL == 5 * Second   \* interval(Duration::from_secs(5))

None == 0

terminal_shell_pid == 1     \* the shell_pid given to IPCCommunicator::new

Calls == 1..MaxCalls        \* the send operations, by message id
InitCall == 0               \* the call of initialize()
AllCalls == {InitCall} \cup Calls
Conns == 1..MaxConns
Daemons == 1..NumDaemons
Clients == 1..MaxClients
Lines == 1..MaxLines
Waiters == 1..MaxWaiters
Writers == 1..MaxWriters
Reviews == 1..MaxReviews

\* kinds of public operation, by the send path they take
\*   initialize      ensure_connection only
\*   present_review  ensure_connection, then send_message_with_reply
\*                   (get_selection takes the same path)
\*   resolve_symbol  send_message_with_reply with no ensure_connection
\*                   (find_all_references takes the same path)
\*   send_log        send_message_without_reply with no ensure_connection
\*                   (send_marco, send_polo, send_goodbye,
\*                    send_create_synthetic_pr take the same path)
OpKinds == {"present_review", "resolve_symbol", "send_log"}
WithEnsure == {"initialize", "present_review"}
WithReply == {"present_review", "resolve_symbol"}

Payloads == {"p1", "p2"}          \* well-formed ResponsePayload values
BadPayload == "bad"               \* a payload that does not parse
Feedbacks == {"f1"}               \* well-formed UserFeedbackPayload values

VARIABLES
  \* IPCCommunicatorInner
  connected,          \* connected: bool
  write_half,         \* write_half: Option<..>, None or the connection
  pending_requests,   \* keys of pending_requests (the message ids)
  \* tokio::sync::Mutex<IPCCommunicatorInner>
  lock,               \* holder of the state mutex
  attempt,            \* attempt number inside attempt_connection_with_backoff
  \* operations in flight
  op, pc, result, reply,
  slot,               \* the oneshot channel of each send_message_with_reply
  cleanup,            \* spawned timeout-cleanup tasks, by message id
  reconPending,       \* spawned clear_connection_and_reconnect tasks
  \* connections opened by the manager
  nextConn, connAlive, inbox,
  rpc,                \* response_reader_task of each connection
  \* environment
  daemonUp, kills, written,
  \* history
  dispatched, published, healed

VARIABLES
  \* the filesystem and the owner process
  sockFile,           \* 0: no file at the path; d: the file daemon d bound
  ownerAlive,
  \* run_daemon_with_prefix / run_message_bus of each daemon
  dpc,
  bus,                \* the broadcast channel: every line sent so far
  \* one connection to the daemon and its handle_client task
  hpc, hd,
  cur,                \* position of the handler's broadcast::Receiver
  cin,                \* bytes the client wrote, not yet read by the handler
  part,               \* what the pending read_line future has read so far
  cout,               \* lines the handler wrote to the client
  cw,                 \* the line whose newline the client has yet to write
  ready,              \* the readiness barrier of each daemon was released
  \* history
  nlines, writer, audience, lagged

VARIABLES
  \* IPCCommunicatorInner
  pending_feedback,   \* pending_feedback: review id -> the waiter whose
                      \* sender is in the map, or None
  \* wait_for_user_feedback calls in flight
  wpc, wrev, wslot, wresult,
  \* history
  skipped,            \* the reader has skipped a line it could not use
  echoed              \* the calls whose own request line the reader took

mvars == <<connected, write_half, pending_requests, lock, attempt, op, pc,
           result, reply, slot, cleanup, reconPending, nextConn, connAlive,
           inbox, rpc, daemonUp, kills, written,
           dispatched, published, healed>>

dvars == <<sockFile, ownerAlive, dpc, bus, hpc, hd, cur, cin, part, cout,
           cw, ready, nlines, writer, audience, lagged>>

xvars == <<pending_feedback, wpc, wrev, wslot, wresult, skipped, echoed>>

VARIABLES
  \* the two directions of each connection of the manager, at the daemon
  outbox,             \* lines the manager wrote, not yet read by the handler
  hmsg                \* the line the handler is writing to the manager, in
                      \* write_all with the socket buffer full, if any

fvars == <<outbox, hmsg>>

VARIABLES
  \* the peer of each connection to the daemon
  peer,               \* "open"; "closed": the peer has shut the connection;
                      \* "reset": reads and writes on it fail
  rbuf,               \* what was written to the peer and it has not read
                      \* yet: lines, or 0 for the first bytes of a line
  got                 \* the lines the peer has read, in the order read

cvars == <<peer, rbuf, got>>

VARIABLES
  \* run_message_bus
  reaped,             \* the handlers removed from the `clients` map
  sleep,              \* time run of the sleep of the current loop iteration
  sinceTick           \* time since the last tick of vscode_check_interval

tvars == <<reaped, sleep, sinceTick>>

VARIABLES
  \* handle_client, one line on its way through the daemon
  line,               \* the String that read_line has filled
  sent,               \* the messages handed to tx.send
  wire,               \* the bytes written to a subscribed peer
  lpc                 \* "none", "read", "sent", "dropped", "written"

lvars == <<line, sent, wire, lpc>>

VARIABLES
  \* attempt_connection_with_backoff
  delays              \* the sleeps, in ms, of the call that is running or
                      \* of the last call, when it failed

bvars == <<delays>>

VARIABLES
  \* the bytes of write_message on their way to the daemon
  stream,             \* per connection, the chunks written to the socket
  wrpc                \* per writer: "idle", "newline", "done"

svars == <<stream, wrpc>>

VARIABLES
  \* the managers of one bus and the envelopes between them
  chan,               \* the lines the daemon has published, in order
  up,                 \* per client, the lines written and not yet published
  seen,               \* per client, the lines of chan its reader has handled
  sends               \* the sends made by callers

qvars == <<chan, up, seen, sends>>

mvars_but_lock ==
  <<connected, write_half, pending_requests, attempt, op, pc, result, reply,
    slot, cleanup, reconPending, nextConn, connAlive, inbox, rpc, daemonUp,
    kills, written, dispatched, published, healed>>

mvars_but_inbox ==
  <<connected, write_half, pending_requests, lock, attempt, op, pc, result,
    reply, slot, cleanup, reconPending, nextConn, connAlive, rpc, daemonUp,
    kills, written, dispatched, published, healed>>

vars == <<mvars, dvars, xvars, fvars, cvars, tvars, lvars, bvars, svars, qvars>>

Free == [kind |-> "free", id |-> 0]
Holder(k, i) == [kind |-> k, id |-> i]

Response(i, p) ==
  [kind |-> "Response", id |-> i, payload |-> p, review |-> 0]
Marco == [kind |-> "Marco", id |-> 0, payload |-> "none", review |-> 0]
Other == [kind |-> "Other", id |-> 0, payload |-> "none", review |-> 0]
\* a UserFeedback envelope: its own message id, the review_id and the rest
\* of its payload
UserFeedback(i, r, f) ==
  [kind |-> "UserFeedback", id |-> i, payload |-> f, review |-> r]
\* the request of call i, as the bus sends it back to the client that
\* wrote it: the same id, the kind of a request
Echo(i) == [kind |-> "Request", id |-> i, payload |-> "p1", review |-> 0]
\* a line that is not UTF-8 or not an IPCMessage
Garbage == [kind |-> "Garbage", id |-> 0, payload |-> "none", review |-> 0]

\* IPCCommunicator::new: nothing connected, both maps empty
ManagerInit ==
  /\ connected = FALSE
  /\ write_half = None
  /\ pending_requests = {}
  /\ lock = Free
  /\ attempt = 0
  /\ delays = <<>>
  /\ stream = [k \in Conns |-> <<>>]
  /\ chan = <<>>
  /\ up = [c \in Clients |-> <<>>]
  /\ seen = [c \in Clients |-> 0]
  /\ sends = 0
  /\ wrpc = [w \in Writers |-> "idle"]
  /\ op = [c \in AllCalls |-> "none"]
  /\ pc = [c \in AllCalls |-> "idle"]
  /\ result = [c \in AllCalls |-> "none"]
  /\ reply = [c \in AllCalls |-> "none"]
  /\ slot = [c \in AllCalls |-> "none"]
  /\ cleanup = {}
  /\ reconPending = 0
  /\ nextConn = 1
  /\ connAlive = [k \in Conns |-> FALSE]
  /\ inbox = [k \in Conns |-> <<>>]
  /\ rpc = [k \in Conns |-> "none"]
  /\ daemonUp \in BOOLEAN
  /\ kills = 0
  /\ written = {}
  /\ dispatched = [c \in AllCalls |-> "none"]
  /\ published = [c \in AllCalls |-> "none"]
  /\ healed = [c \in AllCalls |-> FALSE]
  /\ pending_feedback = [r \in Reviews |-> None]
  /\ wpc = [w \in Waiters |-> "idle"]
  /\ wrev = [w \in Waiters |-> 0]
  /\ wslot = [w \in Waiters |-> "none"]
  /\ wresult = [w \in Waiters |-> "none"]
  /\ skipped = FALSE
  /\ echoed = {}
  /\ outbox = [k \in Conns |-> <<>>]
  /\ hmsg = [k \in Conns |-> <<>>]

\* no daemon started, no file at the socket path
DaemonInit ==
  /\ sockFile = 0
  /\ ownerAlive = TRUE
  /\ dpc = [d \in Daemons |-> "idle"]
  /\ bus = [d \in Daemons |-> <<>>]
  /\ hpc = [h \in Clients |-> "none"]
  /\ hd = [h \in Clients |-> 0]
  /\ cur = [h \in Clients |-> 1]
  /\ cin = [h \in Clients |-> <<>>]
  /\ part = [h \in Clients |-> 0]
  /\ cout = [h \in Clients |-> <<>>]
  /\ cw = [h \in Clients |-> 0]
  /\ nlines = 0
  /\ writer = [l \in Lines |-> 0]
  /\ audience = [l \in Lines |-> {}]
  /\ lagged = [h \in Clients |-> FALSE]
  /\ ready = [d \in Daemons |-> FALSE]
  /\ peer = [h \in Clients |-> "open"]
  /\ rbuf = [h \in Clients |-> <<>>]
  /\ got = [h \in Clients |-> <<>>]
  /\ reaped = {}
  /\ sleep = 0
  /\ sinceTick = PROBE_INTERVAL

\* the state of the line before read_line has returned text s
LineInit(s, at) ==
  /\ line = s
  /\ sent = <<>>
  /\ wire = <<>>
  /\ lpc = at

InitManager == ManagerInit /\ DaemonInit /\ LineInit(<<>>, "none")

\* ------------------------------------------------------------ operations

Set(f, c, v) == [f EXCEPT ![c] = v]

Range(f) == {f[i] : i \in DOMAIN f}

\* the receiver half of the oneshot channel is dropped when the call returns
Return(c, res, rep) ==
  /\ pc' = Set(pc, c, "done")
  /\ result' = Set(result, c, res)
  /\ reply' = Set(reply, c, rep)

\* the operation is issued after the daemon was killed and restarted, the
\* reader has noticed the loss and its parting gift has run to its end
Healable ==
  /\ daemonUp
  /\ kills > 0
  /\ \E k \in Conns : rpc[k] # "none" /\ ~connAlive[k]
  /\ \A k \in Conns : (rpc[k] # "none" /\ ~connAlive[k]) => rpc[k] = "done"
  /\ reconPending = 0
  /\ lock.kind # "recon"

\* a public operation is called (initialize, present_review, get_selection,
\* send_log, ..., resolve_symbol_by_name, find_all_references)
Start(c, kind) ==
  /\ pc[c] = "idle"
  /\ c > 1 => pc[c - 1] # "idle"
  /\ c = InitCall <=> kind = "initialize"
  /\ op' = Set(op, c, kind)
  /\ pc' = Set(pc, c, IF kind \in WithEnsure THEN "ensure"
                      ELSE IF kind \in WithReply THEN "register"
                      ELSE "write")
  /\ healed' = Set(healed, c, Healable)
  /\ UNCHANGED <<connected, write_half, pending_requests, lock, attempt,
                 result, reply, slot, cleanup, reconPending, nextConn,
                 connAlive, inbox, rpc, daemonUp, kills, written,
                 dispatched, published, dvars, xvars, fvars, cvars, tvars, lvars, bvars, svars, qvars>>

\* ensure_connection that never takes the early return
EnsureAlreadyConnected_never == FALSE

\* ensure_connection: `if inner.connected { return Ok(()) }`
EnsureAlreadyConnected == connected

\* the two assertions at the top of attempt_connection_with_backoff
AttemptPrecondition == ~connected /\ write_half = None

\* ensure_connection, up to the call of attempt_connection_with_backoff
EnsureConnection(c) ==
  /\ pc[c] = "ensure"
  /\ lock = Free
  /\ IF EnsureAlreadyConnected
       THEN /\ IF op[c] = "initialize"
                 THEN Return(c, "Ok", "none")
                 ELSE /\ pc' = Set(pc, c, "register")
                      /\ UNCHANGED <<result, reply>>
            /\ UNCHANGED <<lock, attempt, delays>>
       ELSE IF AttemptPrecondition
         THEN /\ lock' = Holder("ensure", c)
              /\ attempt' = 1
              /\ delays' = <<>>
              /\ pc' = Set(pc, c, "connecting")
              /\ UNCHANGED <<result, reply>>
         ELSE /\ Return(c, "Panic", "none")
              /\ UNCHANGED <<lock, attempt, delays>>
  /\ UNCHANGED <<connected, write_half, pending_requests, op, slot, cleanup,
                 reconPending, nextConn, connAlive, inbox, rpc, daemonUp,
                 kills, written, dispatched, published, healed, dvars, xvars,
                 fvars, cvars, tvars, lvars, svars, qvars>>

\* a connect that stores the write handle and leaves the flag as it was
ConnectedAfterConnect_unset == connected

\* attempt_connection_with_backoff, Ok(stream): `self.connected = true`
\* follows `self.write_half = Some(..)` under the same guard
ConnectedAfterConnect == TRUE

\* a delay that grows by the base each time
Delay_linear(k) == BASE_DELAY_MS * k

\* `BASE_DELAY_MS * 2_u64.pow(attempt - 1)`: with attempt < MAX_RETRIES the
\* product is at most 800 and the 64 bits do not overflow
Delay(k) == BASE_DELAY_MS * 2 ^ (k - 1)

\* one iteration of the loop of attempt_connection_with_backoff, run by
\* whoever holds the state mutex (a caller's ensure_connection or the
\* reconnect task): UnixStream::connect succeeds when the daemon listens
AttemptConnect ==
  /\ lock.kind \in {"ensure", "recon"}
  /\ IF daemonUp
       THEN \* Ok(stream): store the write half, flip connected, spawn reader
            /\ nextConn <= MaxConns
            /\ write_half' = nextConn
            /\ connected' = ConnectedAfterConnect
            /\ rpc' = Set(rpc, nextConn, "reading")
            /\ connAlive' = Set(connAlive, nextConn, TRUE)
            /\ nextConn' = nextConn + 1
            /\ lock' = Free
            /\ attempt' = 0
            /\ delays' = <<>>
            /\ IF lock.kind = "ensure"
                 THEN IF op[lock.id] = "initialize"
                        THEN Return(lock.id, "Ok", "none")
                        ELSE /\ pc' = Set(pc, lock.id, "register")
                             /\ UNCHANGED <<result, reply>>
                 ELSE UNCHANGED <<pc, result, reply>>
       ELSE IF attempt < MAX_RETRIES
         THEN \* Err(e) if attempt < MAX_RETRIES: sleep, next attempt
              /\ delays' = Append(delays, Delay(attempt))
              /\ attempt' = attempt + 1
              /\ UNCHANGED <<write_half, connected, rpc, connAlive, nextConn,
                             lock, pc, result, reply>>
         ELSE \* Err(e): ConnectionFailed
              /\ lock' = Free
              /\ attempt' = 0
              /\ delays' = delays
              /\ IF lock.kind = "ensure"
                   THEN Return(lock.id, "ConnectionFailed", "none")
                   ELSE UNCHANGED <<pc, result, reply>>
              /\ UNCHANGED <<write_half, connected, rpc, connAlive, nextConn>>
  /\ UNCHANGED <<pending_requests, op, slot, cleanup, reconPending, inbox,
                 daemonUp, kills, written, dispatched, published,
                 healed, dvars, xvars, fvars, cvars, tvars, lvars, svars, qvars>>

\* send_message_with_reply: oneshot::channel() and
\* inner.pending_requests.insert(message.id, tx)
RegisterSlot(c) ==
  /\ pc[c] = "register"
  /\ lock = Free
  /\ pending_requests' = pending_requests \cup {c}
  /\ slot' = Set(slot, c, "open")
  /\ pc' = Set(pc, c, "write")
  /\ UNCHANGED <<connected, write_half, lock, attempt, op, result, reply,
                 cleanup, reconPending, nextConn, connAlive, inbox, rpc,
                 daemonUp, kills, written, dispatched, published,
                 healed, dvars, xvars, fvars, cvars, tvars, lvars, bvars, svars, qvars>>

\* a caller that keeps the state guard when write_message has returned
GuardAfterWrite_held(c) == Holder("write", c)

\* write_message: `inner`, the guard of the state mutex, goes out of scope
\* when the function returns, before the caller awaits its reply
GuardAfterWrite(c) == Free

\* a write that drops the write handle when it fails
FailedWriteHalf_dropped == None

\* write_message, `write_all(..).await?`: the error is returned through a
\* guard that was never mutable; the write handle stays in the state
FailedWriteHalf == write_half

\* write_message: lock the state; with no write half Err(NotConnected);
\* else write_all(data), write_all("\n") under both mutexes, which fails
\* when the peer end of the socket is gone.  An error leaves
\* send_message_with_reply through `?`, the slot still in the map.
WriteMessage(c) ==
  /\ pc[c] = "write"
  /\ lock = Free
  /\ IF write_half = None
       THEN /\ Return(c, "NotConnected", "none")
            /\ slot' = Set(slot, c, "none")
            /\ UNCHANGED <<written, write_half>>
       ELSE IF connAlive[write_half]
         THEN /\ IF op[c] \in WithReply
                   THEN /\ pc' = Set(pc, c, "await")
                        /\ written' = written \cup {c}
                        /\ UNCHANGED <<result, reply>>
                   ELSE /\ Return(c, "Ok", "none")
                        /\ UNCHANGED written
              /\ UNCHANGED <<slot, write_half>>
         ELSE /\ Return(c, "WriteError", "none")
              /\ slot' = Set(slot, c, "none")
              /\ write_half' = FailedWriteHalf
              /\ UNCHANGED written
  /\ lock' = GuardAfterWrite(c)
  /\ UNCHANGED <<connected, pending_requests, attempt, op,
                 cleanup, reconPending, nextConn, connAlive, inbox, rpc,
                 daemonUp, kills, dispatched, published, healed, dvars, xvars, fvars, cvars, tvars, lvars, bvars, svars, qvars>>

\* timeout(5s, rx) yields Ok(Ok(response))
ReceiveReply(c) ==
  /\ pc[c] = "await"
  /\ slot[c] \in Payloads
  /\ Return(c, "Ok", slot[c])
  /\ slot' = Set(slot, c, "none")
  /\ UNCHANGED <<connected, write_half, pending_requests, lock, attempt, op,
                 cleanup, reconPending, nextConn, connAlive, inbox, rpc,
                 daemonUp, kills, written, dispatched, published,
                 healed, dvars, xvars, fvars, cvars, tvars, lvars, bvars, svars, qvars>>

\* timeout(5s, rx) yields Ok(Err(RecvError)): the sender was dropped
ReceiveClosed(c) ==
  /\ pc[c] = "await"
  /\ slot[c] = "closed"
  /\ Return(c, "ChannelClosed", "none")
  /\ slot' = Set(slot, c, "none")
  /\ UNCHANGED <<connected, write_half, pending_requests, lock, attempt, op,
                 cleanup, reconPending, nextConn, connAlive, inbox, rpc,
                 daemonUp, kills, written, dispatched, published,
                 healed, dvars, xvars, fvars, cvars, tvars, lvars, bvars, svars, qvars>>

\* a timeout that spawns no cleanup task
TimeoutCleanup_none(c) == cleanup

\* the map_err closure of the timeout: tokio::spawn of the task that will
\* lock the state and remove the id
TimeoutCleanup(c) == cleanup \cup {c}

\* timeout(5s, rx) yields Err(Elapsed): nothing was sent in the window
Timeout(c) ==
  /\ pc[c] = "await"
  /\ slot[c] = "open"
  /\ cleanup' = TimeoutCleanup(c)
  /\ Return(c, "Timeout", "none")
  /\ slot' = Set(slot, c, "none")
  /\ UNCHANGED <<connected, write_half, pending_requests, lock, attempt, op,
                 reconPending, nextConn, connAlive, inbox, rpc, daemonUp, kills, written, dispatched, published,
                 healed, dvars, xvars, fvars, cvars, tvars, lvars, bvars, svars, qvars>>

\* a cleanup task that removes nothing
CleanupRemove_noop(c) == pending_requests

\* `inner.pending_requests.remove(&message_id)`
CleanupRemove(c) == pending_requests \ {c}

\* the spawned cleanup task: lock the state, remove the id
CleanupTask(c) ==
  /\ c \in cleanup
  /\ lock = Free
  /\ pending_requests' = CleanupRemove(c)
  /\ cleanup' = cleanup \ {c}
  /\ UNCHANGED <<connected, write_half, lock, attempt, op, pc, result, reply,
                 slot, reconPending, nextConn, connAlive, inbox, rpc, daemonUp, kills, written, dispatched, published,
                 healed, dvars, xvars, fvars, cvars, tvars, lvars, bvars, svars, qvars>>

\* ----------------------------------------------------------- reader task

\* the receiver of call c still exists: the call has not returned
ReceiverAlive(c) == pc[c] \in {"write", "await"}

\* a lookup that takes whichever slot is registered, whatever the id
MatchRequest_any(msg) ==
  IF pending_requests # {} THEN CHOOSE c \in pending_requests : TRUE ELSE None

\* `inner_guard.pending_requests.remove(&message.id)`: the key removed,
\* None when the id is not registered
MatchRequest(msg) ==
  IF msg.id \in pending_requests THEN msg.id ELSE None

\* a reader that takes every line with an id for a reply
IsReply_anykind(msg) == msg.kind \in {"Response", "Request"}

\* handle_incoming_message: `match message.message_type`, the arm
\* IPCMessageType::Response
IsReply(msg) == msg.kind = "Response"

\* the kinds that fall to the arm `_`: Polo, Goodbye, Log and the request
\* kinds
Unhandled == {"Other", "Request"}

\* response_reader_task reads a line; handle_incoming_message,
\* IPCMessageType::Response with a payload that parses: under the state
\* lock, remove the slot of this id and send the payload through it
ReaderResponse(k) ==
  /\ rpc[k] = "reading"
  /\ inbox[k] # <<>>
  /\ IsReply(Head(inbox[k]))
  /\ Head(inbox[k]).payload \in Payloads
  /\ lock = Free
  /\ LET msg == Head(inbox[k])
         c == MatchRequest(msg)
     IN /\ IF c # None
             THEN /\ pending_requests' = pending_requests \ {c}
                  /\ slot' = IF ReceiverAlive(c)
                               THEN Set(slot, c, msg.payload)
                               ELSE slot
             ELSE UNCHANGED <<pending_requests, slot>>
        /\ dispatched' =
             IF /\ msg.id \in Calls
                /\ msg.id \in pending_requests
                /\ pc[msg.id] = "await"
                /\ dispatched[msg.id] = "none"
               THEN Set(dispatched, msg.id, msg.payload)
               ELSE dispatched
  /\ inbox' = Set(inbox, k, Tail(inbox[k]))
  /\ UNCHANGED <<connected, write_half, lock, attempt, op, pc, result, reply,
                 cleanup, reconPending, nextConn, connAlive, rpc, daemonUp,
                 kills, written, published, healed, dvars, xvars, fvars, cvars, tvars, lvars, bvars, svars, qvars>>

\* handle_incoming_message, IPCMessageType::Marco: send_polo, that is
\* write_message from the reader task under the state lock; a failure is
\* logged
ReaderMarco(k) ==
  /\ rpc[k] = "reading"
  /\ inbox[k] # <<>>
  /\ Head(inbox[k]).kind = "Marco"
  /\ lock = Free
  /\ inbox' = Set(inbox, k, Tail(inbox[k]))
  /\ UNCHANGED <<connected, write_half, pending_requests, lock, attempt, op,
                 pc, result, reply, slot, cleanup, reconPending, nextConn,
                 connAlive, rpc, daemonUp, kills, written, dispatched,
                 published, healed, dvars, xvars, fvars, cvars, tvars, lvars, bvars, svars, qvars>>

\* handle_incoming_message returns without touching the state: a Response
\* whose payload does not parse, or a kind with no handler
ReaderIgnore(k) ==
  /\ rpc[k] = "reading"
  /\ inbox[k] # <<>>
  /\ \/ Head(inbox[k]).kind \in Unhandled /\ ~IsReply(Head(inbox[k]))
     \/ IsReply(Head(inbox[k])) /\ Head(inbox[k]).payload = BadPayload
  /\ inbox' = Set(inbox, k, Tail(inbox[k]))
  /\ echoed' = IF Head(inbox[k]).kind = "Request"
                 THEN echoed \cup {Head(inbox[k]).id}
                 ELSE echoed
  /\ UNCHANGED <<connected, write_half, pending_requests, lock, attempt, op,
                 pc, result, reply, slot, cleanup, reconPending, nextConn,
                 connAlive, rpc, daemonUp, kills, written, dispatched,
                 published, healed, dvars, pending_feedback, wpc, wrev,
                 wslot, wresult, skipped, fvars, cvars, tvars, lvars, bvars, svars, qvars>>

\* the line cannot be used: it is not UTF-8, not an IPCMessage, or its
\* payload does not parse as the payload of its kind
BadLine(msg) ==
  \/ msg.kind = "Garbage"
  \/ msg.kind \in {"Response", "UserFeedback"} /\ msg.payload = BadPayload

\* a reader that gives up at a line it cannot use
AfterBadLine_stop == "done"

\* response_reader_task: `continue` on invalid UTF-8; handle_incoming_message
\* returns on a parse error; the loop goes on
AfterBadLine == "reading"

\* response_reader_task reads a line that is not UTF-8, or
\* handle_incoming_message one that is not an IPCMessage or whose
\* UserFeedback payload does not parse: logged, skipped
ReaderSkip(k) ==
  /\ rpc[k] = "reading"
  /\ inbox[k] # <<>>
  /\ Head(inbox[k]).kind \in {"Garbage", "UserFeedback"}
  /\ BadLine(Head(inbox[k]))
  /\ inbox' = Set(inbox, k, Tail(inbox[k]))
  /\ rpc' = Set(rpc, k, AfterBadLine)
  /\ skipped' = TRUE
  /\ UNCHANGED <<connected, write_half, pending_requests, lock, attempt, op,
                 pc, result, reply, slot, cleanup, reconPending, nextConn,
                 connAlive, daemonUp, kills, written, dispatched,
                 published, healed, dvars, pending_feedback, wpc, wrev,
                 wslot, wresult, echoed, fvars, cvars, tvars, lvars, bvars, svars, qvars>>

\* a lookup that takes any registered feedback slot, whatever the review
MatchFeedback_any(msg) ==
  IF \E r \in Reviews : pending_feedback[r] # None
    THEN CHOOSE r \in Reviews : pending_feedback[r] # None
    ELSE None

\* `inner_guard.pending_feedback.remove(&feedback_payload.review_id)`: the
\* key removed, None when the review id is not registered
MatchFeedback(msg) ==
  IF msg.review \in Reviews /\ pending_feedback[msg.review] # None
    THEN msg.review ELSE None

\* handle_incoming_message, IPCMessageType::UserFeedback with a payload
\* that parses: under the state lock, remove the slot of this review id and
\* send the feedback through it
ReaderFeedback(k) ==
  /\ rpc[k] = "reading"
  /\ inbox[k] # <<>>
  /\ Head(inbox[k]).kind = "UserFeedback"
  /\ Head(inbox[k]).payload \in Feedbacks
  /\ lock = Free
  /\ LET msg == Head(inbox[k])
         r == MatchFeedback(msg)
     IN IF r # None
          THEN /\ pending_feedback' = Set(pending_feedback, r, None)
               /\ wslot' = IF wpc[pending_feedback[r]] = "await"
                             THEN Set(wslot, pending_feedback[r], msg.payload)
                             ELSE wslot
          ELSE UNCHANGED <<pending_feedback, wslot>>
  /\ inbox' = Set(inbox, k, Tail(inbox[k]))
  /\ UNCHANGED <<connected, write_half, pending_requests, lock, attempt, op,
                 pc, result, reply, slot, cleanup, reconPending, nextConn,
                 connAlive, rpc, daemonUp, kills, written, dispatched,
                 published, healed, dvars, wpc, wrev, wresult, skipped, echoed,
                 fvars, cvars, tvars, lvars, bvars, svars, qvars>>

\* wait_for_user_feedback(review_id): oneshot::channel() and
\* inner.pending_feedback.insert(review_id, sender), which drops the sender
\* an earlier call had registered under the same review id
WaitRegister(w, r) ==
  /\ wpc[w] = "idle"
  /\ w > 1 => wpc[w - 1] # "idle"
  /\ lock = Free
  /\ pending_feedback' = Set(pending_feedback, r, w)
  /\ wslot' = [v \in Waiters |->
                IF v = w THEN "open"
                ELSE IF pending_feedback[r] = v /\ wslot[v] = "open"
                  THEN "closed" ELSE wslot[v]]
  /\ wrev' = Set(wrev, w, r)
  /\ wpc' = Set(wpc, w, "await")
  /\ UNCHANGED <<mvars, dvars, wresult, skipped, echoed,
                 fvars, cvars, tvars, lvars, bvars, svars, qvars>>

\* receiver.await yields Ok(feedback)
WaitReceive(w) ==
  /\ wpc[w] = "await"
  /\ wslot[w] \in Feedbacks
  /\ wpc' = Set(wpc, w, "done")
  /\ wresult' = Set(wresult, w, wslot[w])
  /\ wslot' = Set(wslot, w, "none")
  /\ UNCHANGED <<mvars, dvars, pending_feedback, wrev, skipped, echoed,
                 fvars, cvars, tvars, lvars, bvars, svars, qvars>>

\* receiver.await yields Err: the sender was dropped; the call removes the
\* review id from the map, which drops whatever sender is registered under
\* it, and returns ConnectionFailed (BrokenPipe)
WaitClosed(w) ==
  /\ wpc[w] = "await"
  /\ wslot[w] = "closed"
  /\ lock = Free
  /\ pending_feedback' = Set(pending_feedback, wrev[w], None)
  /\ wslot' = [v \in Waiters |->
                IF v = w THEN "none"
                ELSE IF pending_feedback[wrev[w]] = v /\ wslot[v] = "open"
                  THEN "closed" ELSE wslot[v]]
  /\ wpc' = Set(wpc, w, "done")
  /\ wresult' = Set(wresult, w, "ConnectionFailed")
  /\ UNCHANGED <<mvars, dvars, wrev, skipped, echoed,
                 fvars, cvars, tvars, lvars, bvars, svars, qvars>>

\* a reader that terminates without its parting gift
ReaderPartingGift_none == reconPending

\* the parting gift: tokio::spawn(clear_connection_and_reconnect(..))
ReaderPartingGift == reconPending + 1

\* response_reader_task: Ok(0) or Err(e) breaks the loop; the task spawns
\* the reconnection and terminates
ReaderEOF(k) ==
  /\ rpc[k] = "reading"
  /\ inbox[k] = <<>>
  /\ ~connAlive[k]
  /\ rpc' = Set(rpc, k, "done")
  /\ reconPending' = ReaderPartingGift
  /\ UNCHANGED <<connected, write_half, pending_requests, lock, attempt, op,
                 pc, result, reply, slot, cleanup, nextConn, connAlive,
                 inbox, daemonUp, kills, written, dispatched,
                 published, healed, dvars, xvars, fvars, cvars, tvars, lvars, bvars, svars, qvars>>

\* a clear that keeps the stale write half
ClearWriteHalf_keep == write_half

\* clear_connection_and_reconnect: `inner.write_half = None`
ClearWriteHalf == None

\* a clear that leaves the request map as it is
ClearPending_keep == pending_requests

\* clear_connection_and_reconnect: `inner.pending_requests.clear()`
ClearPending == {}

\* an eviction that empties the feedback map too
ClearFeedback_all == [r \in Reviews |-> None]

\* clear_connection_and_reconnect clears `pending_requests` only: the
\* feedback map keeps its entries
ClearFeedback == pending_feedback

\* clear_connection_and_reconnect up to its call of
\* attempt_connection_with_backoff, in one critical section; dropping a
\* sender closes the channel of a caller that still waits
ClearConnection ==
  /\ reconPending > 0
  /\ lock = Free
  /\ reconPending' = reconPending - 1
  /\ connected' = FALSE
  /\ write_half' = ClearWriteHalf
  /\ pending_requests' = ClearPending
  /\ slot' = [c \in AllCalls |->
               IF c \in pending_requests /\ c \notin ClearPending
                  /\ slot[c] = "open"
                 THEN "closed" ELSE slot[c]]
  /\ IF connected' = FALSE /\ write_half' = None
       THEN /\ lock' = Holder("recon", 0)
            /\ attempt' = 1
            /\ delays' = <<>>
       ELSE \* the assertion panics, the task ends and drops the guard
            UNCHANGED <<lock, attempt, delays>>
  /\ pending_feedback' = ClearFeedback
  /\ UNCHANGED <<op, pc, result, reply, cleanup, nextConn, connAlive, inbox,
                 rpc, daemonUp, kills, written, dispatched, published, healed,
                 dvars, wpc, wrev, wslot, wresult, skipped, echoed, fvars,
                 cvars, tvars, lvars, svars, qvars>>

\* ----------------------------------------------------------- environment

\* the daemon process is killed: every connection loses its peer; lines the
\* daemon had published but not yet written to a connection are lost, lines
\* already in the socket buffer can still be read
KillDaemon ==
  /\ daemonUp
  /\ kills < MaxKills
  /\ daemonUp' = FALSE
  /\ kills' = kills + 1
  /\ connAlive' = [k \in Conns |-> FALSE]
  /\ \E n \in [Conns -> 0..MaxInbox] :
       /\ \A k \in Conns : n[k] <= Len(inbox[k])
       /\ inbox' = [k \in Conns |-> SubSeq(inbox[k], 1, n[k])]
  /\ healed' = [c \in AllCalls |-> IF pc[c] = "done" THEN healed[c] ELSE FALSE]
  /\ UNCHANGED <<connected, write_half, pending_requests, lock, attempt, op,
                 pc, result, reply, slot, cleanup, reconPending, nextConn,
                 rpc, written, dispatched, published, dvars, xvars, fvars, cvars, tvars, lvars, bvars, svars, qvars>>

\* a daemon is started again at the same path
RestartDaemon ==
  /\ ~daemonUp
  /\ daemonUp' = TRUE
  /\ UNCHANGED <<connected, write_half, pending_requests, lock, attempt, op,
                 pc, result, reply, slot, cleanup, reconPending, nextConn,
                 connAlive, inbox, rpc, kills, written,
                 dispatched, published, healed, dvars, xvars, fvars, cvars, tvars, lvars, bvars, svars, qvars>>

\* the lines other participants can publish on the bus: a Response to a
\* request that was written, a Response to some other client's request
\* (id 0, which no send operation of this manager carries), a Marco, or any
\* other kind (the echo of a request included)
BusMessages ==
  {Response(i, p) : i \in written, p \in Payloads \cup {BadPayload}}
    \cup {Response(0, "p1"), Marco, Other}

\* the lines of a session with reviews: a UserFeedback, whose message id
\* may be the id of a request; a Response whose id is a review id; a line
\* that cannot be parsed
FeedbackMessages ==
  {UserFeedback(1, r, f) : r \in Reviews, f \in Feedbacks \cup {BadPayload}}
    \cup {Response(r, p) : r \in Reviews, p \in {"p1", BadPayload}}
    \cup {Garbage, Other}
    \cup {Echo(i) : i \in Calls}

AllMessages ==
  {Response(i, p) : i \in AllCalls, p \in Payloads \cup {BadPayload}}
    \cup {Marco, Other} \cup FeedbackMessages

\* a line published on the bus is queued for connection k
BusDeliver(k, msg) ==
  /\ msg \in BusMessages
  /\ connAlive[k]
  /\ Len(inbox[k]) < MaxInbox
  /\ inbox' = Set(inbox, k, Append(inbox[k], msg))
  /\ published' =
       IF /\ msg.kind = "Response"
          /\ msg.payload \in Payloads
          /\ msg.id \in Calls
          /\ pc[msg.id] = "await"
          /\ slot[msg.id] = "open"
          /\ published[msg.id] = "none"
         THEN Set(published, msg.id, msg.payload)
         ELSE published
  /\ UNCHANGED <<connected, write_half, pending_requests, lock, attempt, op,
                 pc, result, reply, slot, cleanup, reconPending, nextConn,
                 connAlive, rpc, daemonUp, kills, written, dispatched,
                 healed, dvars, xvars, fvars, cvars, tvars, lvars, bvars, svars, qvars>>

\* -------------------------------------------------------- specifications

Next ==
  \/ \E c \in AllCalls, kind \in OpKinds \cup {"initialize"} : Start(c, kind)
  \/ \E c \in AllCalls : EnsureConnection(c)
  \/ AttemptConnect
  \/ \E c \in Calls : RegisterSlot(c)
  \/ \E c \in Calls : WriteMessage(c)
  \/ \E c \in Calls : ReceiveReply(c)
  \/ \E c \in Calls : ReceiveClosed(c)
  \/ \E c \in Calls : Timeout(c)
  \/ \E c \in Calls : CleanupTask(c)
  \/ \E k \in Conns : ReaderResponse(k)
  \/ \E k \in Conns : ReaderMarco(k)
  \/ \E k \in Conns : ReaderIgnore(k)
  \/ \E k \in Conns : ReaderEOF(k)
  \/ ClearConnection
  \/ KillDaemon
  \/ RestartDaemon
  \/ \E k \in Conns, msg \in AllMessages : BusDeliver(k, msg)

Spec == InitManager /\ [][Next]_vars

\* a UserFeedback line or a damaged line is queued for connection k
FeedbackDeliver(k, msg) ==
  /\ msg \in FeedbackMessages
  /\ connAlive[k]
  /\ Len(inbox[k]) < MaxInbox
  /\ inbox' = Set(inbox, k, Append(inbox[k], msg))
  /\ UNCHANGED <<connected, write_half, pending_requests, lock, attempt, op,
                 pc, result, reply, slot, cleanup, reconPending, nextConn,
                 connAlive, rpc, daemonUp, kills, written, dispatched,
                 published, healed, dvars, xvars, fvars, cvars, tvars, lvars, bvars, svars, qvars>>

\* ------------------------------------------- the sockets as bounded buffers

\* a line of the manager on the wire: its kind and its shell_pid field
Line(kind, pid) == [kind |-> kind, shell_pid |-> pid]

\* write_all completes when the socket buffer takes the bytes
HasRoom(k) == Len(outbox[k]) < MaxOutbox

\* what follows a completed write_message in the caller
Written(c) ==
  /\ outbox' = Set(outbox, write_half,
                   Append(outbox[write_half], Line("Request", terminal_shell_pid)))
  /\ IF op[c] \in WithReply
       THEN /\ pc' = Set(pc, c, "await")
            /\ written' = written \cup {c}
            /\ UNCHANGED <<result, reply>>
       ELSE /\ Return(c, "Ok", "none")
            /\ UNCHANGED written

\* write_message, with write_all as it is: the caller locks the state and,
\* when the socket buffer is full, stays in write_all holding the lock
FlowWrite(c) ==
  /\ pc[c] = "write"
  /\ lock = Free
  /\ IF write_half = None
       THEN /\ Return(c, "NotConnected", "none")
            /\ slot' = Set(slot, c, "none")
            /\ UNCHANGED <<written, outbox, lock>>
       ELSE IF ~connAlive[write_half]
         THEN /\ Return(c, "WriteError", "none")
              /\ slot' = Set(slot, c, "none")
              /\ UNCHANGED <<written, outbox, lock>>
         ELSE IF HasRoom(write_half)
           THEN /\ Written(c)
                /\ UNCHANGED <<slot, lock>>
           ELSE /\ lock' = Holder("write", c)
                /\ pc' = Set(pc, c, "writing")
                /\ UNCHANGED <<result, reply, slot, written, outbox>>
  /\ UNCHANGED <<connected, write_half, pending_requests, attempt, op,
                 cleanup, reconPending, nextConn, connAlive, inbox, rpc,
                 daemonUp, kills, dispatched, published, healed, dvars,
                 xvars, cvars, tvars, lvars, bvars, svars, qvars, hmsg>>

\* write_all of a caller completes once the handler has made room
FlowWriteResume(c) ==
  /\ pc[c] = "writing"
  /\ HasRoom(write_half)
  /\ Written(c)
  /\ lock' = Free
  /\ UNCHANGED <<connected, write_half, pending_requests, attempt, op, slot,
                 cleanup, reconPending, nextConn, connAlive, inbox, rpc,
                 daemonUp, kills, dispatched, published, healed, dvars,
                 xvars, cvars, tvars, lvars, bvars, svars, qvars, hmsg>>

\* a Polo that carries no origin
PoloOrigin_zero == None

\* handle_incoming_message, Marco: the shell_pid read from the state
PoloOrigin == terminal_shell_pid

\* the Polo line is in the socket
PoloWritten == 
  outbox' = Set(outbox, write_half,
                Append(outbox[write_half], Line("Polo", PoloOrigin)))

\* handle_incoming_message, IPCMessageType::Marco, with write_all as it is:
\* the reader task calls send_polo, whose write_message locks the state
\* and writes; with the socket buffer full the reader stays in write_all,
\* holding the lock and reading nothing
FlowReaderMarco(k) ==
  /\ rpc[k] = "reading"
  /\ inbox[k] # <<>>
  /\ Head(inbox[k]).kind = "Marco"
  /\ lock = Free
  /\ inbox' = Set(inbox, k, Tail(inbox[k]))
  /\ IF write_half = None \/ ~connAlive[k]
       THEN UNCHANGED <<outbox, lock, rpc>>
       ELSE IF HasRoom(write_half)
         THEN /\ PoloWritten
              /\ UNCHANGED <<lock, rpc>>
         ELSE /\ lock' = Holder("polo", k)
              /\ rpc' = Set(rpc, k, "writing")
              /\ UNCHANGED outbox
  /\ UNCHANGED <<connected, write_half, pending_requests, attempt, op, pc,
                 result, reply, slot, cleanup, reconPending, nextConn,
                 connAlive, daemonUp, kills, written, dispatched, published,
                 healed, dvars, xvars, cvars, tvars, lvars, bvars, svars, qvars, hmsg>>

\* write_all of the reader's Polo completes once the handler has made room
FlowPoloResume(k) ==
  /\ rpc[k] = "writing"
  /\ HasRoom(write_half)
  /\ PoloWritten
  /\ lock' = Free
  /\ rpc' = Set(rpc, k, "reading")
  /\ UNCHANGED <<connected, write_half, pending_requests, attempt, op, pc,
                 result, reply, slot, cleanup, reconPending, nextConn,
                 connAlive, inbox, daemonUp, kills, written, dispatched,
                 published, healed, dvars, xvars, cvars, tvars, lvars, bvars, svars, qvars, hmsg>>

\* handle_client of connection k, branch rx.recv(): write_all of the line to
\* the manager; with the socket buffer full the handler stays in write_all
HandlerDeliver(k, msg) ==
  /\ msg \in BusMessages
  /\ connAlive[k]
  /\ hmsg[k] = <<>>
  /\ IF Len(inbox[k]) < MaxInbox
       THEN /\ inbox' = Set(inbox, k, Append(inbox[k], msg))
            /\ UNCHANGED hmsg
       ELSE /\ hmsg' = Set(hmsg, k, <<msg>>)
            /\ UNCHANGED inbox
  /\ UNCHANGED <<mvars_but_inbox, dvars, xvars, cvars, tvars, lvars, bvars, svars, qvars, outbox>>

\* write_all of the handler completes once the reader has made room
HandlerResume(k) ==
  /\ hmsg[k] # <<>>
  /\ Len(inbox[k]) < MaxInbox
  /\ inbox' = Set(inbox, k, Append(inbox[k], hmsg[k][1]))
  /\ hmsg' = Set(hmsg, k, <<>>)
  /\ UNCHANGED <<mvars_but_inbox, dvars, xvars, cvars, tvars, lvars, bvars, svars, qvars, outbox>>

\* handle_client of connection k, branch reader.read_line(): taken only
\* while the handler is in its select!, not inside write_all
HandlerDrain(k) ==
  /\ connAlive[k]
  /\ hmsg[k] = <<>>
  /\ outbox[k] # <<>>
  /\ outbox' = Set(outbox, k, Tail(outbox[k]))
  /\ UNCHANGED <<mvars, dvars, xvars, cvars, tvars, lvars, bvars, svars, qvars, hmsg>>

\* the manager against a daemon that stays up, the sockets being bounded
\* buffers between them
NextFlow ==
  \/ \E c \in AllCalls, kind \in OpKinds \cup {"initialize"} : Start(c, kind)
  \/ \E c \in AllCalls : EnsureConnection(c)
  \/ AttemptConnect
  \/ \E c \in Calls : RegisterSlot(c)
  \/ \E c \in Calls : FlowWrite(c)
  \/ \E c \in Calls : FlowWriteResume(c)
  \/ \E c \in Calls : ReceiveReply(c)
  \/ \E c \in Calls : Timeout(c)
  \/ \E c \in Calls : CleanupTask(c)
  \/ \E k \in Conns : ReaderResponse(k)
  \/ \E k \in Conns : ReaderIgnore(k)
  \/ \E k \in Conns : FlowReaderMarco(k)
  \/ \E k \in Conns : FlowPoloResume(k)
  \/ \E k \in Conns, msg \in AllMessages : HandlerDeliver(k, msg)
  \/ \E k \in Conns : HandlerResume(k)
  \/ \E k \in Conns : HandlerDrain(k)

SpecFlow == InitManager /\ [][NextFlow]_vars

\* the runtime runs every task that can take a step, the FIFO state mutex
\* serves every task that asks for it, the timer of a waiting call fires
FairFlow ==
  /\ SpecFlow
  /\ WF_vars(AttemptConnect)
  /\ \A c \in AllCalls : SF_vars(EnsureConnection(c))
  /\ \A c \in Calls : SF_vars(RegisterSlot(c))
  /\ \A c \in Calls : SF_vars(FlowWrite(c))
  /\ \A c \in Calls : WF_vars(FlowWriteResume(c))
  /\ \A c \in Calls : WF_vars(ReceiveReply(c) \/ Timeout(c))
  /\ \A k \in Conns : SF_vars(ReaderResponse(k) \/ ReaderIgnore(k) \/ FlowReaderMarco(k))
  /\ \A k \in Conns : WF_vars(FlowPoloResume(k))
  /\ \A k \in Conns : WF_vars(HandlerResume(k))
  /\ \A k \in Conns : WF_vars(HandlerDrain(k))

\* the manager in a session with reviews, against a daemon that stays up:
\* callers of the send operations, of wait_for_user_feedback and of
\* shutdown, and the reader task
NextFeedback ==
  \/ \E c \in AllCalls, kind \in {"initialize", "resolve_symbol", "shutdown"} :
       Start(c, kind)
  \/ \E c \in AllCalls : EnsureConnection(c)
  \/ AttemptConnect
  \/ \E c \in Calls : RegisterSlot(c)
  \/ \E c \in Calls : WriteMessage(c)
  \/ \E c \in Calls : ReceiveReply(c)
  \/ \E c \in Calls : Timeout(c)
  \/ \E c \in Calls : CleanupTask(c)
  \/ \E k \in Conns : ReaderResponse(k)
  \/ \E k \in Conns : ReaderIgnore(k)
  \/ \E k \in Conns : ReaderSkip(k)
  \/ \E k \in Conns : ReaderFeedback(k)
  \/ \E k \in Conns, msg \in AllMessages : FeedbackDeliver(k, msg)
  \/ \E w \in Waiters, r \in Reviews : WaitRegister(w, r)
  \/ \E w \in Waiters : WaitReceive(w)
  \/ \E w \in Waiters : WaitClosed(w)

\* the UserFeedback lines whose payload parses
ReviewLines == {UserFeedback(1, r, f) : r \in Reviews, f \in Feedbacks}

\* the manager in a session with reviews, against a daemon that is killed
\* and started again: the callers of initialize and of
\* wait_for_user_feedback, the reader task and its reconnect task
NextReview ==
  \/ Start(InitCall, "initialize")
  \/ EnsureConnection(InitCall)
  \/ AttemptConnect
  \/ \E k \in Conns : ReaderFeedback(k)
  \/ \E k \in Conns : ReaderEOF(k)
  \/ ClearConnection
  \/ KillDaemon
  \/ RestartDaemon
  \/ \E k \in Conns, msg \in ReviewLines : FeedbackDeliver(k, msg)
  \/ \E w \in Waiters, r \in Reviews : WaitRegister(w, r)
  \/ \E w \in Waiters : WaitReceive(w)
  \/ \E w \in Waiters : WaitClosed(w)

SpecReview == InitManager /\ [][NextReview]_vars

SpecFeedback == InitManager /\ [][NextFeedback]_vars

\* ------------------------------------------- the bytes of an envelope

\* the two writes of write_message: `data.as_bytes()`, then b"\n"; `of` is
\* the task that writes, a caller or the reader with its automatic reply
Data(w) == [t |-> "data", of |-> w]
Nl(w) == [t |-> "nl", of |-> w]

Wrote(k, chunk) == stream' = Set(stream, k, Append(stream[k], chunk))

\* a write_message that gives the state mutex up between its two writes
GuardBetweenWrites_released(w) == Free

\* write_message: `inner` and `writer`, the guards of the state mutex and
\* of the write half, live until the function returns
GuardBetweenWrites(w) == Holder("write", w)

\* write_message of a caller up to the end of `write_all(data.as_bytes())`
WriteData(w) ==
  /\ wrpc[w] = "idle"
  /\ lock = Free
  /\ IF write_half = None \/ ~connAlive[write_half]
       THEN \* NotConnected, or the error of the first write
            /\ wrpc' = Set(wrpc, w, "done")
            /\ UNCHANGED <<stream, lock>>
       ELSE /\ Len(stream[write_half]) + 2 <= MaxWire
            /\ Wrote(write_half, Data(Holder("write", w)))
            /\ lock' = GuardBetweenWrites(w)
            /\ wrpc' = Set(wrpc, w, "newline")
  /\ UNCHANGED <<mvars_but_lock, dvars, xvars, fvars, cvars, tvars, lvars,
                 bvars, qvars>>

\* `writer.write_all(b"\n").await?` of the same call, and its return
WriteNewline(w) ==
  /\ wrpc[w] = "newline"
  /\ IF connAlive[write_half]
       THEN Wrote(write_half, Nl(Holder("write", w)))
       ELSE UNCHANGED stream
  /\ lock' = Free
  /\ wrpc' = Set(wrpc, w, "done")
  /\ UNCHANGED <<mvars_but_lock, dvars, xvars, fvars, cvars, tvars, lvars,
                 bvars, qvars>>

\* handle_incoming_message, IPCMessageType::Marco: send_polo, whose
\* write_message the reader task runs itself, up to the end of the write
\* of the data
PoloData(k) ==
  /\ rpc[k] = "reading"
  /\ inbox[k] # <<>>
  /\ Head(inbox[k]).kind = "Marco"
  /\ lock = Free
  /\ inbox' = Set(inbox, k, Tail(inbox[k]))
  /\ IF write_half = None \/ ~connAlive[write_half]
       THEN UNCHANGED <<stream, lock, rpc>>
       ELSE /\ Len(stream[write_half]) + 2 <= MaxWire
            /\ Wrote(write_half, Data(Holder("polo", k)))
            /\ lock' = Holder("polo", k)
            /\ rpc' = Set(rpc, k, "polo_newline")
  /\ UNCHANGED <<connected, write_half, pending_requests, attempt, op, pc,
                 result, reply, slot, cleanup, reconPending, nextConn,
                 connAlive, daemonUp, kills, written, dispatched, published,
                 healed, dvars, xvars, fvars, cvars, tvars, lvars, bvars,
                 wrpc, qvars>>

\* the newline of the Polo; the reader goes back to its read
PoloNewline(k) ==
  /\ rpc[k] = "polo_newline"
  /\ IF connAlive[write_half]
       THEN Wrote(write_half, Nl(Holder("polo", k)))
       ELSE UNCHANGED stream
  /\ lock' = Free
  /\ rpc' = Set(rpc, k, "reading")
  /\ UNCHANGED <<connected, write_half, pending_requests, attempt, op, pc,
                 result, reply, slot, cleanup, reconPending, nextConn,
                 connAlive, inbox, daemonUp, kills, written, dispatched,
                 published, healed, dvars, xvars, fvars, cvars, tvars, lvars,
                 bvars, wrpc, qvars>>

\* a Marco is queued for connection k
MarcoDeliver(k) ==
  /\ connAlive[k]
  /\ Len(inbox[k]) < MaxInbox
  /\ inbox' = Set(inbox, k, Append(inbox[k], Marco))
  /\ UNCHANGED <<mvars_but_inbox, dvars, xvars, fvars, cvars, tvars, lvars,
                 bvars, svars, qvars>>

\* one manager whose callers and whose reader write to the connection,
\* against a daemon that can be killed and started again
NextWire ==
  \/ Start(InitCall, "initialize")
  \/ EnsureConnection(InitCall)
  \/ AttemptConnect
  \/ \E w \in Writers : WriteData(w)
  \/ \E w \in Writers : WriteNewline(w)
  \/ \E k \in Conns : MarcoDeliver(k)
  \/ \E k \in Conns : PoloData(k)
  \/ \E k \in Conns : PoloNewline(k)
  \/ \E k \in Conns : ReaderEOF(k)
  \/ ClearConnection
  \/ KillDaemon
  \/ RestartDaemon

SpecWire == InitManager /\ [][NextWire]_vars

\* ------------------------------------------- the managers of one bus

\* the kinds of envelope a manager can receive: the discovery messages,
\* the replies, and the requests of callers, which come back to everyone
Kinds == {"Marco", "Polo", "Goodbye", "Response", "UserFeedback", "Request"}

\* an envelope on the bus: its kind and, for an automatic reply, the client
\* that wrote it and the position on the bus of the line it answers
Envelope(kind, c, cause) == [kind |-> kind, by |-> c, cause |-> cause]

\* a manager that answers a Polo as it answers a Marco
Triggers_polo(kind) == kind \in {"Marco", "Polo"}

\* handle_incoming_message: the only arm that sends is IPCMessageType::Marco
Triggers(kind) == kind = "Marco"

\* a caller of manager c sends an envelope: write_message puts the line in
\* the connection
CallerSend(c, kind) ==
  /\ sends < MaxSends
  /\ sends' = sends + 1
  /\ up' = Set(up, c, Append(up[c], Envelope(kind, None, None)))
  /\ UNCHANGED <<mvars, dvars, xvars, fvars, cvars, tvars, lvars, bvars,
                 svars, chan, seen>>

\* handle_client of connection c, read_line: the line is sent on the
\* broadcast channel
Publish(c) ==
  /\ up[c] # <<>>
  /\ Len(chan) < MaxChan
  /\ chan' = Append(chan, Head(up[c]))
  /\ up' = Set(up, c, Tail(up[c]))
  /\ UNCHANGED <<mvars, dvars, xvars, fvars, cvars, tvars, lvars, bvars,
                 svars, seen, sends>>

\* handle_client of connection c, rx.recv: the next line of the channel is
\* written to manager c, whose reader takes it: handle_incoming_message,
\* with send_polo and its write_message for a Marco
Handle(c) ==
  /\ seen[c] < Len(chan)
  /\ seen' = Set(seen, c, seen[c] + 1)
  /\ up' = IF Triggers(chan[seen[c] + 1].kind)
             THEN Set(up, c, Append(up[c], Envelope("Polo", c, seen[c] + 1)))
             ELSE up
  /\ UNCHANGED <<mvars, dvars, xvars, fvars, cvars, tvars, lvars, bvars,
                 svars, chan, sends>>

NextQuiet ==
  \/ \E c \in Clients, kind \in Kinds : CallerSend(c, kind)
  \/ \E c \in Clients : Publish(c)
  \/ \E c \in Clients : Handle(c)

SpecQuiet == InitManager /\ [][NextQuiet]_vars

\* the daemon's handlers and the readers of the managers are scheduled
FairQuiet ==
  /\ SpecQuiet
  /\ \A c \in Clients : WF_vars(Publish(c))
  /\ \A c \in Clients : WF_vars(Handle(c))

\* ------------------------------------------------------------ the daemon

WholeLine(l) == [t |-> "line", l |-> l]   \* the bytes of a line and its "\n"
LineData(l) == [t |-> "data", l |-> l]    \* the bytes of a line, no "\n" yet
Newline == [t |-> "nl", l |-> 0]          \* the "\n" alone

\* the daemon has claimed the path and has not finished shutting down
Holds(d) == dpc[d] \in {"bound", "loop", "stopped"}

\* the daemon's listening socket is open
Listening(d) == dpc[d] \in {"bound", "loop"}

\* handlers and queued connections of daemon d
Of(d) == {h \in Clients : hd[h] = d /\ hpc[h] \in {"queued", "running"}}

\* a bind that takes the path whether or not a file is there
BindSucceeds_always == TRUE

\* UnixListener::bind(&socket_path): fails with AddrInUse when a file
\* exists at the path
BindSucceeds == sockFile = 0

\* run_daemon_with_prefix: the claim
StartDaemon(d) ==
  /\ dpc[d] = "idle"
  /\ d > 1 => dpc[d - 1] # "idle"
  /\ IF BindSucceeds
       THEN /\ sockFile' = d
            /\ dpc' = Set(dpc, d, "bound")
       ELSE /\ dpc' = Set(dpc, d, "failed")
            /\ UNCHANGED sockFile
  /\ UNCHANGED <<ownerAlive, bus, hpc, hd, cur, cin, part, cout, cw, nlines,
                 writer, audience, lagged, ready, mvars, xvars, fvars, cvars, tvars, lvars, bvars, svars, qvars>>

\* a barrier released before the path is bound
BarrierPoint_early(d) == dpc[d] \in {"idle", "bound"}

\* the point of run_message_bus where barrier.wait() stands: the listener
\* is bound, the loop has not started
BarrierPoint(d) == dpc[d] = "bound"

\* run_message_bus: `barrier.wait().await` on the ready_barrier
SignalReady(d) ==
  /\ BarrierPoint(d)
  /\ ~ready[d]
  /\ ready' = Set(ready, d, TRUE)
  /\ UNCHANGED <<sockFile, ownerAlive, dpc, bus, hpc, hd, cur, cin, part,
                 cout, cw, nlines, writer, audience, lagged, mvars, xvars, fvars, cvars, tvars, lvars, bvars, svars, qvars>>

\* run_message_bus: the broadcast channel is created, the loop starts
EnterLoop(d) ==
  /\ dpc[d] = "bound"
  /\ ready[d]
  /\ dpc' = Set(dpc, d, "loop")
  /\ bus' = Set(bus, d, <<>>)
  /\ UNCHANGED <<sockFile, ownerAlive, hpc, hd, cur, cin, part, cout, cw,
                 nlines, writer, audience, lagged, ready, mvars, xvars, fvars, cvars, tvars, lvars, bvars, svars, qvars>>

\* a receiver that also sees the last line sent before it was created
SubscribeAt_start(d) == IF bus[d] = <<>> THEN Len(bus[d]) + 1 ELSE Len(bus[d])

\* `tx.subscribe()` in the accept branch: the receiver sees the lines sent
\* after this call
SubscribeAt(d) == Len(bus[d]) + 1

\* listener.accept(): tx.subscribe(), then spawn handle_client and insert
\* its handle in `clients`; the loop starts over, with a new sleep
Accept(d, h) ==
  /\ dpc[d] = "loop"
  /\ hpc[h] = "queued"
  /\ hd[h] = d
  /\ hpc' = Set(hpc, h, "running")
  /\ cur' = Set(cur, h, SubscribeAt(d))
  /\ sleep' = 0
  /\ UNCHANGED <<sockFile, ownerAlive, dpc, bus, hd, cin, part, cout, cw,
                 nlines, writer, audience, lagged, ready, mvars, xvars,
                 fvars, cvars, reaped, sinceTick, lvars, bvars, svars, qvars>>

\* a shutdown that leaves the handlers running
Aborted_none(d) == hpc

\* the handlers of daemon d end: handle.abort() or the death of the process
Aborted(d) == [h \in Clients |-> IF h \in Of(d) THEN "aborted" ELSE hpc[h]]

\* vscode_check_interval.tick(): kill(pid, None) is ESRCH; break; abort
\* every handler; run_message_bus returns Ok
ProbeOwnerDead(d) ==
  /\ dpc[d] = "loop"
  /\ ~ownerAlive
  /\ dpc' = Set(dpc, d, "stopped")
  /\ hpc' = Aborted(d)
  /\ UNCHANGED <<sockFile, ownerAlive, bus, hd, cur, cin, part, cout, cw,
                 nlines, writer, audience, lagged, ready, mvars, xvars, fvars, cvars, tvars, lvars, bvars, svars, qvars>>

\* run_daemon_with_prefix after the loop: remove the socket file if it
\* exists, return Ok
RemoveSocketFile(d) ==
  /\ dpc[d] = "stopped"
  /\ sockFile' = 0
  /\ dpc' = Set(dpc, d, "done")
  /\ UNCHANGED <<ownerAlive, bus, hpc, hd, cur, cin, part, cout, cw, nlines,
                 writer, audience, lagged, ready, mvars, xvars, fvars, cvars, tvars, lvars, bvars, svars, qvars>>

\* the daemon process is killed, or its task aborted: nothing is cleaned up
KillDaemonProcess(d) ==
  /\ Holds(d)
  /\ dpc' = Set(dpc, d, "killed")
  /\ hpc' = Aborted(d)
  /\ UNCHANGED <<sockFile, ownerAlive, bus, hd, cur, cin, part, cout, cw,
                 nlines, writer, audience, lagged, ready, mvars, xvars, fvars, cvars, tvars, lvars, bvars, svars, qvars>>

\* whoever starts daemons removes the file a dead daemon left behind
RemoveStaleFile ==
  /\ sockFile # 0
  /\ dpc[sockFile] = "killed"
  /\ sockFile' = 0
  /\ UNCHANGED <<ownerAlive, dpc, bus, hpc, hd, cur, cin, part, cout, cw,
                 nlines, writer, audience, lagged, ready, mvars, xvars, fvars, cvars, tvars, lvars, bvars, svars, qvars>>

\* the owner process exits
OwnerDies ==
  /\ ownerAlive
  /\ ownerAlive' = FALSE
  /\ UNCHANGED <<sockFile, dpc, bus, hpc, hd, cur, cin, part, cout, cw,
                 nlines, writer, audience, lagged, ready, mvars, xvars, fvars, cvars, tvars, lvars, bvars, svars, qvars>>

\* a client connects to the socket path
ClientConnect(h) ==
  /\ hpc[h] = "none"
  /\ h > 1 => hpc[h - 1] # "none"
  /\ sockFile # 0
  /\ Listening(sockFile)
  /\ hpc' = Set(hpc, h, "queued")
  /\ hd' = Set(hd, h, sockFile)
  /\ UNCHANGED <<sockFile, ownerAlive, dpc, bus, cur, cin, part, cout, cw,
                 nlines, writer, audience, lagged, ready, mvars, xvars, fvars, cvars, tvars, lvars, bvars, svars, qvars>>

\* the clients whose handler is subscribed to the bus of client h
Subscribed(h) == {b \in Clients : hd[b] = hd[h] /\ hpc[b] = "running"}

\* a client writes a line: in one write of the line and its newline, or,
\* as write_message does, the bytes first
ClientWrite(h, whole) ==
  /\ hpc[h] \in {"queued", "running", "writing"}
  /\ peer[h] = "open"
  /\ cw[h] = 0
  /\ nlines < MaxLines
  /\ nlines' = nlines + 1
  /\ writer' = Set(writer, nlines + 1, h)
  /\ IF whole
       THEN /\ cin' = Set(cin, h, Append(cin[h], WholeLine(nlines + 1)))
            /\ audience' = Set(audience, nlines + 1, Subscribed(h))
            /\ UNCHANGED cw
       ELSE /\ cin' = Set(cin, h, Append(cin[h], LineData(nlines + 1)))
            /\ cw' = Set(cw, h, nlines + 1)
            /\ UNCHANGED audience
  /\ UNCHANGED <<sockFile, ownerAlive, dpc, bus, hpc, hd, cur, part, cout,
                 lagged, ready, mvars, xvars, fvars, cvars, tvars, lvars, bvars, svars, qvars>>

\* write_message: the second write, of the newline delimiter
ClientWriteNewline(h) ==
  /\ hpc[h] \in {"queued", "running", "writing"}
  /\ peer[h] = "open"
  /\ cw[h] # 0
  /\ cin' = Set(cin, h, Append(cin[h], Newline))
  /\ audience' = Set(audience, cw[h], Subscribed(h))
  /\ cw' = Set(cw, h, 0)
  /\ UNCHANGED <<sockFile, ownerAlive, dpc, bus, hpc, hd, cur, part, cout,
                 nlines, writer, lagged, ready, mvars, xvars, fvars, cvars, tvars, lvars, bvars, svars, qvars>>

\* a read_line future that keeps what it has read when it is dropped
CancelledRead_kept(h) == part[h]

\* the read_line future is dropped when the other branch of the select!
\* completes first: what it has read of the line is lost, `line` is empty
CancelledRead(h) == 0

\* handle_client, branch reader.read_line(&mut line): the future reads the
\* bytes that have arrived, up to the first newline; at the newline the
\* trimmed line, if not empty, is sent on the broadcast channel
HandlerRead(h) ==
  /\ hpc[h] = "running"
  /\ cin[h] # <<>>
  /\ LET chunk == Head(cin[h])
         d == hd[h]
     IN CASE chunk.t = "data" /\ Len(cin[h]) = 1 ->
               /\ part' = Set(part, h, chunk.l)
               /\ cin' = Set(cin, h, <<>>)
               /\ UNCHANGED bus
          [] chunk.t = "data" /\ Len(cin[h]) > 1 ->
               /\ part' = Set(part, h, 0)
               /\ cin' = Set(cin, h, Tail(Tail(cin[h])))
               /\ bus' = Set(bus, d, Append(bus[d], chunk.l))
          [] chunk.t = "line" ->
               /\ part' = Set(part, h, 0)
               /\ cin' = Set(cin, h, Tail(cin[h]))
               /\ bus' = Set(bus, d, Append(bus[d], chunk.l))
          [] chunk.t = "nl" ->
               /\ part' = Set(part, h, 0)
               /\ cin' = Set(cin, h, Tail(cin[h]))
               /\ bus' = IF part[h] # 0
                           THEN Set(bus, d, Append(bus[d], part[h]))
                           ELSE bus
  /\ UNCHANGED <<sockFile, ownerAlive, dpc, hpc, hd, cur, cout, cw, nlines,
                 writer, audience, lagged, ready, mvars, xvars, fvars, cvars, tvars, lvars, bvars, svars, qvars>>

\* a handler that does not write a client's own lines back to it
Deliverable_exclusive(h, l) == writer[l] # h

\* handle_client, Ok(message): every line received from the channel is
\* written, whoever published it
Deliverable(h, l) == TRUE

\* handle_client, branch rx.recv(): Ok(message) is written to the client;
\* Err(Lagged) skips to the oldest line the channel still holds
HandlerRecv(h) ==
  /\ hpc[h] = "running"
  /\ cur[h] <= Len(bus[hd[h]])
  /\ peer[h] = "open"
  /\ part' = Set(part, h, CancelledRead(h))
  /\ LET b == bus[hd[h]]
     IN IF Len(b) - cur[h] + 1 > BacklogCapacity
          THEN /\ cur' = Set(cur, h, Len(b) - BacklogCapacity + 1)
               /\ lagged' = Set(lagged, h, TRUE)
               /\ UNCHANGED cout
          ELSE /\ cout' = IF Deliverable(h, b[cur[h]])
                            THEN Set(cout, h, Append(cout[h], b[cur[h]]))
                            ELSE cout
               /\ cur' = Set(cur, h, cur[h] + 1)
               /\ UNCHANGED lagged
  /\ UNCHANGED <<sockFile, ownerAlive, dpc, bus, hpc, hd, cin, cw, nlines,
                 writer, audience, ready, mvars, xvars, fvars, cvars, tvars, lvars, bvars, svars, qvars>>

\* the daemons, their connections and the traffic between them; a daemon
\* ends here by the death of its owner
NextDaemon ==
  \/ \E d \in Daemons : StartDaemon(d)
  \/ \E d \in Daemons : SignalReady(d)
  \/ \E d \in Daemons : EnterLoop(d)
  \/ \E d \in Daemons, h \in Clients : Accept(d, h)
  \/ \E d \in Daemons : ProbeOwnerDead(d)
  \/ \E d \in Daemons : RemoveSocketFile(d)
  \/ OwnerDies
  \/ \E h \in Clients : ClientConnect(h)
  \/ \E h \in Clients, whole \in BOOLEAN : ClientWrite(h, whole)
  \/ \E h \in Clients : ClientWriteNewline(h)
  \/ \E h \in Clients : HandlerRead(h)
  \/ \E h \in Clients : HandlerRecv(h)

InitDaemon ==
  ManagerInit /\ daemonUp = FALSE /\ DaemonInit /\ LineInit(<<>>, "none")

SpecDaemon == InitDaemon /\ [][NextDaemon]_vars

\* the life of the daemons and of their connections, without the traffic
NextLifecycle ==
  \/ \E d \in Daemons : StartDaemon(d)
  \/ \E d \in Daemons : SignalReady(d)
  \/ \E d \in Daemons : EnterLoop(d)
  \/ \E d \in Daemons, h \in Clients : Accept(d, h)
  \/ \E d \in Daemons : ProbeOwnerDead(d)
  \/ \E d \in Daemons : RemoveSocketFile(d)
  \/ \E d \in Daemons : KillDaemonProcess(d)
  \/ RemoveStaleFile
  \/ OwnerDies
  \/ \E h \in Clients : ClientConnect(h)

SpecLifecycle == InitDaemon /\ [][NextLifecycle]_vars

\* the interval of run_message_bus ticks and the runtime runs the daemon's
\* task: the probe and the cleanup that follows it are taken
FairLifecycle ==
  /\ SpecLifecycle
  /\ \A d \in Daemons : WF_vars(ProbeOwnerDead(d))
  /\ \A d \in Daemons : WF_vars(RemoveSocketFile(d))

\* ------------------------------------------- the removal of the file

\* run_daemon_with_prefix after the loop: `Path::new(&socket_path).exists()`;
\* without a file the function logs and returns Ok
CheckExists(d) ==
  /\ dpc[d] = "stopped"
  /\ dpc' = Set(dpc, d, IF sockFile # 0 THEN "removing" ELSE "done")
  /\ UNCHANGED <<sockFile, ownerAlive, bus, hpc, hd, cur, cin, part, cout,
                 cw, nlines, writer, audience, lagged, ready, mvars, xvars,
                 fvars, cvars, tvars, lvars, bvars, svars, qvars>>

\* `std::fs::remove_file(&socket_path)?`: NotFound, like every other error,
\* is returned to the caller of run_daemon_with_prefix
RemoveFile(d) ==
  /\ dpc[d] = "removing"
  /\ IF sockFile # 0
       THEN sockFile' = 0 /\ dpc' = Set(dpc, d, "done")
       ELSE sockFile' = sockFile /\ dpc' = Set(dpc, d, "remove_failed")
  /\ UNCHANGED <<ownerAlive, bus, hpc, hd, cur, cin, part, cout, cw, nlines,
                 writer, audience, lagged, ready, mvars, xvars, fvars, cvars,
                 tvars, lvars, bvars, svars, qvars>>

\* another process removes the file at the path
Unlink ==
  /\ sockFile # 0
  /\ sockFile' = 0
  /\ UNCHANGED <<ownerAlive, dpc, bus, hpc, hd, cur, cin, part, cout, cw,
                 nlines, writer, audience, lagged, ready, mvars, xvars, fvars,
                 cvars, tvars, lvars, bvars, svars, qvars>>

\* the daemons of one path from their claim to their return
NextShutdown ==
  \/ \E d \in Daemons : StartDaemon(d)
  \/ \E d \in Daemons : SignalReady(d)
  \/ \E d \in Daemons : EnterLoop(d)
  \/ \E h \in Clients : ClientConnect(h)
  \/ \E d \in Daemons, h \in Clients : Accept(d, h)
  \/ OwnerDies
  \/ \E d \in Daemons : ProbeOwnerDead(d)
  \/ \E d \in Daemons : CheckExists(d)
  \/ \E d \in Daemons : RemoveFile(d)
  \/ Unlink

SpecShutdown == InitDaemon /\ [][NextShutdown]_vars

\* ------------------------------------------- the peers of the daemon

\* the peer ends its connection: a shutdown of its side ("closed"), seen by
\* the handler as EOF, or a failure of the connection ("reset"), seen as an
\* error of its next read or write
PeerClose(h, how) ==
  /\ hpc[h] = "running"
  /\ peer[h] = "open"
  /\ Cardinality({b \in Clients : peer[b] # "open"}) < MaxFaults
  /\ peer' = Set(peer, h, how)
  /\ UNCHANGED <<dvars, rbuf, got, mvars, xvars, fvars, tvars, lvars, bvars, svars, qvars>>

\* a handler whose end takes the other handlers of its daemon with it
HandlerEnds_all(h) ==
  [b \in Clients |->
     IF hd[b] = hd[h] /\ hpc[b] \in {"running", "writing"}
       THEN "finished" ELSE hpc[b]]

\* handle_client: `break`; the task of this one handler finishes
HandlerEnds(h) == [b \in Clients |-> IF b = h THEN "finished" ELSE hpc[b]]

\* handle_client, read_line is Ok(0): EOF, break. What read_line had read
\* of an unfinished line is returned first, as a line, and published
HandlerEOF(h) ==
  /\ hpc[h] = "running"
  /\ peer[h] = "closed"
  /\ cin[h] = <<>>
  /\ hpc' = HandlerEnds(h)
  /\ part' = Set(part, h, 0)
  /\ bus' = IF part[h] # 0
              THEN Set(bus, hd[h], Append(bus[hd[h]], part[h]))
              ELSE bus
  /\ UNCHANGED <<sockFile, ownerAlive, dpc, hd, cur, cin, cout, cw, nlines,
                 writer, audience, lagged, ready, mvars, xvars, fvars, cvars, tvars, lvars, bvars, svars, qvars>>

\* handle_client, read_line is Err(e): break
HandlerReadError(h) ==
  /\ hpc[h] = "running"
  /\ peer[h] = "reset"
  /\ hpc' = HandlerEnds(h)
  /\ part' = Set(part, h, 0)
  /\ UNCHANGED <<sockFile, ownerAlive, dpc, bus, hd, cur, cin, cout, cw,
                 nlines, writer, audience, lagged, ready, mvars, xvars,
                 fvars, cvars, tvars, lvars, bvars, svars, qvars>>

\* a bus on which no socket takes a line while some peer's socket is full
PeerHasRoom_all(h) == \A b \in Clients : Len(rbuf[b]) < MaxUnread

\* the peer's socket takes another line
PeerHasRoom(h) == Len(rbuf[h]) < MaxUnread

\* write_all and flush have completed: the line is in the peer's socket
LineWritten(h, l) ==
  /\ cout' = Set(cout, h, Append(cout[h], l))
  /\ rbuf' = Set(rbuf, h, Append(rbuf[h], l))

\* handle_client, branch rx.recv(), Ok(message): write_all or flush is
\* Err(e) on a connection the peer has ended; break
HandlerWriteError(h) ==
  /\ hpc[h] = "running"
  /\ cur[h] <= Len(bus[hd[h]])
  /\ Len(bus[hd[h]]) - cur[h] + 1 <= BacklogCapacity
  /\ peer[h] # "open"
  /\ cur' = Set(cur, h, cur[h] + 1)
  /\ hpc' = HandlerEnds(h)
  /\ part' = Set(part, h, CancelledRead(h))
  /\ UNCHANGED <<sockFile, ownerAlive, dpc, bus, hd, cin, cout, cw, nlines,
                 writer, audience, lagged, ready, mvars, xvars, fvars, cvars, tvars, lvars, bvars, svars, qvars>>

\* the first bytes of a line that is longer than the room in the socket
FirstBytes == 0

\* handle_client, branch rx.recv(), with write_all as it is: Ok(message) is
\* written to the peer, the handler staying in write_all while the peer's
\* socket is full or has taken only the first bytes of the line;
\* Err(Lagged) skips to the oldest line the channel still holds and the
\* loop continues
HandlerSend(h, fits) ==
  /\ hpc[h] = "running"
  /\ cur[h] <= Len(bus[hd[h]])
  /\ peer[h] = "open"
  /\ part' = Set(part, h, CancelledRead(h))
  /\ LET b == bus[hd[h]]
     IN IF Len(b) - cur[h] + 1 > BacklogCapacity
          THEN /\ cur' = Set(cur, h, Len(b) - BacklogCapacity + 1)
               /\ lagged' = Set(lagged, h, TRUE)
               /\ UNCHANGED <<cout, rbuf, hpc>>
          ELSE /\ cur' = Set(cur, h, cur[h] + 1)
               /\ UNCHANGED lagged
               /\ IF PeerHasRoom(h) /\ fits
                    THEN /\ LineWritten(h, b[cur[h]])
                         /\ UNCHANGED hpc
                    ELSE /\ hpc' = Set(hpc, h, "writing")
                         /\ rbuf' = IF PeerHasRoom(h)
                                      THEN Set(rbuf, h,
                                               Append(rbuf[h], FirstBytes))
                                      ELSE rbuf
                         /\ UNCHANGED cout
  /\ UNCHANGED <<sockFile, ownerAlive, dpc, bus, hd, cin, cw, nlines,
                 writer, audience, ready, peer, got, mvars, xvars, fvars, tvars, lvars, bvars, svars, qvars>>

\* write_all of the handler completes once the peer has made room: it has
\* read the first bytes, which had filled its socket
HandlerSendResume(h) ==
  /\ hpc[h] = "writing"
  /\ peer[h] = "open"
  /\ PeerHasRoom(h)
  /\ FirstBytes \notin Range(rbuf[h])
  /\ LineWritten(h, bus[hd[h]][cur[h] - 1])
  /\ hpc' = Set(hpc, h, "running")
  /\ UNCHANGED <<sockFile, ownerAlive, dpc, bus, hd, cur, cin, part, cw,
                 nlines, writer, audience, lagged, ready, peer, got, mvars,
                 xvars, fvars, tvars, lvars, bvars, svars, qvars>>

\* a reader that takes the newest line of its socket first
NextLine_newest(q) == q[Len(q)]

\* response_reader_task: read_until(b'\n') takes the lines of the socket
\* in the order they were written to it
NextLine(q) == Head(q)

\* the lines left in the socket once line l is taken
Without(q, l) ==
  LET i == CHOOSE j \in DOMAIN q : q[j] = l
  IN [j \in 1..(Len(q) - 1) |-> IF j < i THEN q[j] ELSE q[j + 1]]

\* the peer reads: a line, which it dispatches, or the first bytes of a
\* line, which it keeps until the rest has come; a peer that is slow to
\* read takes this step late
PeerRead(h) ==
  /\ peer[h] = "open"
  /\ rbuf[h] # <<>>
  /\ got' = IF NextLine(rbuf[h]) = FirstBytes
              THEN got
              ELSE Set(got, h, Append(got[h], NextLine(rbuf[h])))
  /\ rbuf' = Set(rbuf, h, Without(rbuf[h], NextLine(rbuf[h])))
  /\ UNCHANGED <<dvars, peer, mvars, xvars, fvars, tvars, lvars, bvars, svars, qvars>>

\* one daemon, its handlers and their peers, some of which end their
\* connection
NextFaults ==
  \/ StartDaemon(1)
  \/ SignalReady(1)
  \/ EnterLoop(1)
  \/ \E h \in Clients : Accept(1, h)
  \/ \E h \in Clients : ClientConnect(h)
  \/ \E h \in Clients, whole \in BOOLEAN : ClientWrite(h, whole)
  \/ \E h \in Clients : ClientWriteNewline(h)
  \/ \E h \in Clients, how \in {"closed", "reset"} : PeerClose(h, how)
  \/ \E h \in Clients : HandlerRead(h)
  \/ \E h \in Clients : HandlerRecv(h)
  \/ \E h \in Clients : HandlerEOF(h)
  \/ \E h \in Clients : HandlerReadError(h)
  \/ \E h \in Clients : HandlerWriteError(h)

SpecFaults == InitDaemon /\ [][NextFaults]_vars

\* one daemon, its handlers and their peers, the sockets to the peers
\* being bounded buffers that the peers empty when they like; each peer
\* writes a line and its newline in one write
NextSlow ==
  \/ StartDaemon(1)
  \/ SignalReady(1)
  \/ EnterLoop(1)
  \/ \E h \in Clients : Accept(1, h)
  \/ \E h \in Clients : ClientConnect(h)
  \/ \E h \in Clients : ClientWrite(h, TRUE)
  \/ \E h \in Clients : HandlerRead(h)
  \/ \E h \in Clients, fits \in BOOLEAN : HandlerSend(h, fits)
  \/ \E h \in Clients : HandlerSendResume(h)
  \/ \E h \in Clients : PeerRead(h)

SpecSlow == InitDaemon /\ [][NextSlow]_vars

\* the peer that is slow to read
SlowPeer == 1

\* the runtime runs the accept loop and every handler task, and every peer
\* but the slow one keeps reading what is sent to it
FairSlow ==
  /\ SpecSlow
  /\ \A h \in Clients : WF_vars(Accept(1, h))
  /\ \A h \in Clients : WF_vars(HandlerRead(h))
  /\ \A h \in Clients : WF_vars(\E fits \in BOOLEAN : HandlerSend(h, fits))
  /\ \A h \in Clients : WF_vars(HandlerSendResume(h))
  /\ \A h \in Clients \ {SlowPeer} : WF_vars(PeerRead(h))

\* --------------------------------------------------- the text of a line

\* the characters a peer writes between two terminators
Alphabet == {"a", "b", " ", "\t"}

Terminator == "\n"

RECURSIVE Texts(_)
\* the texts of at most n characters
Texts(n) ==
  IF n = 0 THEN {<<>>}
  ELSE Texts(n - 1)
         \cup {Append(t, c) : t \in {u \in Texts(n - 1) : Len(u) = n - 1},
                              c \in Alphabet}

\* what read_line leaves in `line` when it returns Ok(n), n > 0: the bytes
\* up to and with the next terminator, or the last bytes before the end of
\* the stream
ReadLines ==
  {Append(t, Terminator) : t \in Texts(MaxLen)} \cup (Texts(MaxLen) \ {<<>>})

\* char::is_whitespace, for the characters of a line
IsWhitespace(c) == c \in {" ", "\t", "\n", "\r"}

RECURSIVE TrimStart(_)
TrimStart(t) ==
  IF t # <<>> /\ IsWhitespace(Head(t)) THEN TrimStart(Tail(t)) ELSE t

RECURSIVE TrimEnd(_)
TrimEnd(t) ==
  IF t # <<>> /\ IsWhitespace(t[Len(t)])
  THEN TrimEnd(SubSeq(t, 1, Len(t) - 1))
  ELSE t

\* str::trim
Trim(t) == TrimEnd(TrimStart(t))

\* handle_client, read_line returned Ok(_): `line.trim().to_string()` goes
\* to tx.send unless it is empty
ReadLine ==
  /\ lpc = "read"
  /\ IF Trim(line) # <<>>
     THEN sent' = Append(sent, Trim(line)) /\ lpc' = "sent"
     ELSE sent' = sent /\ lpc' = "dropped"
  /\ UNCHANGED <<mvars, dvars, xvars, fvars, cvars, tvars, line, wire, bvars, svars, qvars>>

\* handle_client, rx.recv() returned Ok(message): format!("{}\n", message)
\* is written to the peer
WriteLine ==
  /\ lpc = "sent"
  /\ wire' = Append(Head(sent), Terminator)
  /\ lpc' = "written"
  /\ UNCHANGED <<mvars, dvars, xvars, fvars, cvars, tvars, line, sent, bvars, svars, qvars>>

NextTrim == ReadLine \/ WriteLine

InitTrim ==
  /\ ManagerInit /\ daemonUp = FALSE /\ DaemonInit
  /\ \E t \in ReadLines : LineInit(t, "read")

SpecTrim == InitTrim /\ [][NextTrim]_vars

\* ------------------------------------------------ the loop and its timers

\* the handles in the `clients` map of daemon d
InMap(d) ==
  {h \in Clients : hd[h] = d /\ hpc[h] \in {"running", "writing", "finished"}
                     /\ h \notin reaped}

\* time passes while no timer of the loop is due
TimePasses ==
  /\ dpc[1] = "loop"
  /\ sleep < REAP_SLEEP
  /\ sinceTick < PROBE_INTERVAL
  /\ sleep' = sleep + 1
  /\ sinceTick' = sinceTick + 1
  /\ UNCHANGED <<mvars, dvars, xvars, fvars, cvars, reaped, lvars, bvars, svars, qvars>>

\* Every iteration of the loop of run_message_bus evaluates
\* `tokio::time::sleep(Duration::from_secs(1))` anew inside the select!:
\* whichever branch completes, the next iteration waits a whole second.

\* the branch of the sleep: `clients.retain(..)` drops the handles of the
\* handlers that have finished
Reap(d) ==
  /\ dpc[d] = "loop"
  /\ sleep = REAP_SLEEP
  /\ reaped' = reaped \cup {h \in InMap(d) : hpc[h] = "finished"}
  /\ sleep' = 0
  /\ UNCHANGED <<mvars, dvars, xvars, fvars, cvars, sinceTick, lvars, bvars, svars, qvars>>

\* the branch of the interval, kill(pid, None) is Ok: the loop starts over
ProbeAlive(d) ==
  /\ dpc[d] = "loop"
  /\ sinceTick = PROBE_INTERVAL
  /\ ownerAlive
  /\ sinceTick' = 0
  /\ sleep' = 0
  /\ UNCHANGED <<mvars, dvars, xvars, fvars, cvars, reaped, lvars, bvars, svars, qvars>>

\* the branch of accept, for a connection that is not followed further:
\* the loop starts over
AcceptAnother(d) ==
  /\ dpc[d] = "loop"
  /\ sleep > 0
  /\ sleep' = 0
  /\ UNCHANGED <<mvars, dvars, xvars, fvars, cvars, reaped, sinceTick, lvars, bvars, svars, qvars>>

\* one daemon and its loop, with connections that come and go
NextReap ==
  \/ StartDaemon(1)
  \/ SignalReady(1)
  \/ EnterLoop(1)
  \/ \E h \in Clients : ClientConnect(h)
  \/ \E h \in Clients : Accept(1, h)
  \/ AcceptAnother(1)
  \/ \E h \in Clients, how \in {"closed", "reset"} : PeerClose(h, how)
  \/ \E h \in Clients : HandlerEOF(h)
  \/ \E h \in Clients : HandlerReadError(h)
  \/ TimePasses
  \/ ProbeAlive(1)
  \/ Reap(1)

SpecReap == InitDaemon /\ [][NextReap]_vars

\* time goes on, the runtime runs the daemon's task whenever a branch of
\* its select! is ready, and the branch of the sleep is not passed over
\* forever when it is ready again and again
FairReap ==
  /\ SpecReap
  /\ WF_vars(TimePasses)
  /\ WF_vars(ProbeAlive(1))
  /\ SF_vars(Reap(1))

\* a loop that gives up on a probe it cannot make
AfterProbeError_break(d) == Set(dpc, d, "stopped")

\* the branch of the interval, kill(pid, None) is Err(e), e not ESRCH: the
\* error is logged and the loop goes on
AfterProbeError(d) == dpc

\* kill(pid, None) of a process that exists and that the daemon may not
\* signal (EPERM)
ProbeError(d) ==
  /\ dpc[d] = "loop"
  /\ sinceTick = PROBE_INTERVAL
  /\ ownerAlive
  /\ sinceTick' = 0
  /\ sleep' = 0
  /\ dpc' = AfterProbeError(d)
  /\ hpc' = IF dpc'[d] = "loop" THEN hpc ELSE Aborted(d)
  /\ UNCHANGED <<sockFile, ownerAlive, bus, hd, cur, cin, part, cout, cw,
                 nlines, writer, audience, lagged, ready, mvars, xvars,
                 fvars, cvars, reaped, lvars, bvars, svars, qvars>>

\* the branch of accept, Err(e): the error is logged and the loop starts
\* over
AcceptError(d) ==
  /\ dpc[d] = "loop"
  /\ sleep > 0
  /\ sleep' = 0
  /\ UNCHANGED <<mvars, dvars, xvars, fvars, cvars, reaped, sinceTick, lvars,
                 bvars, svars, qvars>>

\* the loop of one daemon with everything that can go wrong in it; the Ok
\* arm of the probe changes the state as ProbeError does
NextLoop ==
  \/ StartDaemon(1)
  \/ SignalReady(1)
  \/ EnterLoop(1)
  \/ \E h \in Clients : ClientConnect(h)
  \/ \E h \in Clients : Accept(1, h)
  \/ AcceptError(1)
  \/ \E h \in Clients, how \in {"closed", "reset"} : PeerClose(h, how)
  \/ \E h \in Clients : HandlerEOF(h)
  \/ \E h \in Clients : HandlerReadError(h)
  \/ TimePasses
  \/ ProbeError(1)
  \/ Reap(1)
  \/ OwnerDies
  \/ ProbeOwnerDead(1)

SpecLoop == InitDaemon /\ [][NextLoop]_vars

\* the fairness of the runtime: a spawned cleanup task is polled until it
\* gets the state mutex, and a connection attempt in progress goes on
FairSpec ==
  /\ Spec
  /\ WF_vars(AttemptConnect)
  /\ \A c \in Calls : WF_vars(CleanupTask(c))

\* ---------------------------------------------------------------- claims

ConnErrors == {"NotConnected", "ConnectionFailed", "WriteError",
               "ChannelClosed"}

\* C1 (as claimed): whenever a well-formed Response carrying the id of a
\* call was published on the bus while the call was waiting in its window,
\* and the call did not time out, the call returned Ok with exactly that
\* payload (never ChannelClosed, never another payload).
C1_Original ==
  \A c \in Calls :
    (pc[c] = "done" /\ published[c] # "none" /\ result[c] # "Timeout")
      => (result[c] = "Ok" /\ reply[c] = published[c])

\* C1 (amended): when the reader task dispatches a well-formed Response
\* carrying the id of a call while the call's slot is registered and the
\* caller is still awaiting it, the call returns Ok with exactly that
\* payload; and a call never returns a payload other than the one of the
\* Response with its own id that was dispatched to it.
C1_Correlation ==
  \A c \in Calls :
    /\ (pc[c] = "await" /\ slot[c] \in Payloads) => slot[c] = dispatched[c]
    /\ pc[c] = "done" =>
         /\ dispatched[c] # "none"
              => (result[c] = "Ok" /\ reply[c] = dispatched[c])
         /\ result[c] = "Ok" => reply[c] = dispatched[c]

\* a call has returned the payload of a Response
C1_Witness ==
  \E c \in Calls :
    pc[c] = "done" /\ result[c] = "Ok" /\ reply[c] \in Payloads

\* C2: at most one daemon holds the socket path at any time; a
\* run_daemon_with_prefix call made while a daemon that bound the path is
\* still running fails at bind and never enters the message loop.
C2_Exclusive ==
  /\ [](Cardinality({d \in Daemons : Holds(d)}) <= 1)
  /\ [][\A d \in Daemons :
          /\ (dpc[d] = "idle" /\ dpc'[d] # "idle"
                /\ \E e \in Daemons : e # d /\ Holds(e))
               => dpc'[d] = "failed"
          /\ dpc[d] = "failed" => dpc'[d] = "failed"]_vars

\* a second daemon has failed at bind while the first one holds the path
C2_Witness ==
  \E d \in Daemons, e \in Daemons :
    d # e /\ dpc[d] = "failed" /\ dpc[e] = "loop"


\* line l, written by client a, is still on its way to client b: unread
\* in a's socket, in a's handler's read_line, or on the bus ahead of b's
\* subscription
InFlight(l, b) ==
  LET a == writer[l]
      q == bus[hd[b]]
  IN \/ \E i \in DOMAIN cin[a] : cin[a][i].l = l
     \/ part[a] = l
     \/ \E i \in DOMAIN q : q[i] = l /\ i >= cur[b]

\* C3 (as claimed): every line a client wrote is written by the daemon to
\* every other client that was connected when the line was written and
\* still is, unless that client's subscription lagged: such a line is
\* either on its way to that client or has been written to it.
C3_FanOut ==
  \A l \in 1..nlines : \A b \in audience[l] :
    (b # writer[l] /\ hpc[b] = "running" /\ ~lagged[b])
      => (l \in Range(cout[b]) \/ InFlight(l, b))

\* C4 (as claimed): an operation issued after the daemon was killed and
\* restarted, once the reader's parting gift has run (successfully or not)
\* and with the daemon reachable until the operation returns, does not fail
\* for want of a connection, whichever operation it is.
C4_SelfHealing ==
  \A c \in Calls :
    (pc[c] = "done" /\ healed[c]) => result[c] \notin ConnErrors

\* C5 (as claimed): once the send_message_with_reply call that inserted an
\* id has returned, with any outcome, and no cleanup of the id is still
\* scheduled, the id is no longer in pending_requests.
C5_Hygiene ==
  \A c \in Calls :
    (pc[c] = "done" /\ c \notin cleanup) => c \notin pending_requests

C8_Together ==
  /\ [](lock = Free => (connected <=> write_half # None))
  /\ [][(connected' # connected)
          <=> ((write_half' = None) # (write_half = None))]_vars

\* the connection was set and then cleared, and the mutex is free again
C8_Witness ==
  /\ lock = Free
  /\ ~connected
  /\ write_half = None
  /\ nextConn > 1

ReadersOf(k) == IF rpc[k] = "reading" THEN {k} ELSE {}

LiveConns == {k \in Conns : write_half = k \/ rpc[k] = "reading"}

\* C10: an ensure_connection that finds connected returns Ok, opens no
\* socket and spawns no reader; every step from disconnected to connected
\* opens exactly one socket and spawns exactly one reader, and sockets and
\* readers appear in no other step; the manager never has two open
\* connections or two reader tasks.
C10_Idempotent ==
  /\ [](Cardinality(LiveConns) <= 1)
  /\ [](Cardinality({k \in Conns : rpc[k] = "reading"}) <= 1)
  /\ [][\A c \in AllCalls :
          (pc[c] = "ensure" /\ connected /\ pc'[c] # "ensure")
            => /\ nextConn' = nextConn
               /\ rpc' = rpc
               /\ lock' = lock
               /\ result'[c] \in {"none", "Ok"}]_vars
  /\ [][(nextConn' # nextConn \/ rpc' # rpc \/ (~connected /\ connected'))
          => \/ /\ ~connected /\ connected'
                /\ nextConn' = nextConn + 1
                /\ rpc' = [rpc EXCEPT ![nextConn] = "reading"]
             \/ /\ nextConn' = nextConn
                /\ connected' = connected
                /\ \E k \in Conns : rpc' = [rpc EXCEPT ![k] = "done"]]_vars

\* two ensure_connection calls have returned Ok and one socket was opened
C10_Witness ==
  /\ result[InitCall] = "Ok"
  /\ \E c \in Calls :
       op[c] = "present_review" /\ pc[c] \in {"register", "write", "await"}
  /\ nextConn = 2
  /\ kills = 0


\* C11 (as claimed): no public operation returns NotConnected: every send
\* path ensures a connection before it writes.
C11_NeverNotConnected ==
  \A c \in Calls : result[c] # "NotConnected"


\* C13: when the connection is lost while a send_message_with_reply slot is
\* registered, the bulk eviction of clear_connection_and_reconnect removes
\* the id and drops the sender; a caller that awaits a dropped slot returns
\* ChannelClosed, never Timeout, as its next step.
C13_ChannelClosed ==
  /\ [][\A c \in Calls :
          (reconPending' = reconPending - 1 /\ c \in pending_requests
             /\ slot[c] = "open")
            => (slot'[c] = "closed" /\ c \notin pending_requests')]_vars
  /\ [][\A c \in Calls :
          (pc[c] = "await" /\ slot[c] = "closed" /\ pc'[c] # "await")
            => (pc'[c] = "done" /\ result'[c] = "ChannelClosed")]_vars
  /\ [](\A c \in Calls :
          result[c] = "ChannelClosed" => c \notin cleanup)

\* a caller whose slot was evicted on disconnect has returned ChannelClosed
C13_Witness ==
  \E c \in Calls :
    pc[c] = "done" /\ result[c] = "ChannelClosed" /\ kills > 0


C20_Readiness ==
  /\ [](\A d \in Daemons : ready[d] => dpc[d] \notin {"idle", "failed"})
  /\ [](\A d \in Daemons : dpc[d] = "loop" => ready[d])
  /\ [](\A d \in Daemons :
          (ready[d] /\ dpc[d] \in {"bound", "loop"})
            => (sockFile = d /\ Listening(d)))
  /\ [][\A d \in Daemons :
          (~ready[d] /\ ready'[d]) => (dpc[d] = "bound" /\ dpc'[d] = "bound")]_vars

\* a client has connected to a daemon that released the barrier and has
\* not yet started its loop
C20_Witness ==
  \E d \in Daemons, h \in Clients :
    ready[d] /\ dpc[d] = "bound" /\ hd[h] = d /\ hpc[h] = "queued"


\* the reader task of connection k takes the line at the head of its input
Consumes(k) ==
  /\ rpc[k] = "reading"
  /\ inbox[k] # <<>>
  /\ inbox'[k] = Tail(inbox[k])

\* C16: wait_for_user_feedback registers its slot in the feedback map and
\* leaves the request map alone; its slot receives a value only in the step
\* where the reader takes a UserFeedback line whose review_id is the key of
\* the call, and the call returns only that value; a step that takes a
\* Response line changes nothing of the feedback map, a step that takes a
\* UserFeedback line nothing of the request map.
C16_FeedbackMap ==
  /\ [][\A w \in Waiters :
          (wpc[w] = "idle" /\ wpc'[w] # "idle")
            => /\ pending_feedback'[wrev'[w]] = w
               /\ pending_requests' = pending_requests
               /\ slot' = slot]_vars
  /\ [][\A w \in Waiters :
          (wslot[w] \notin Feedbacks /\ wslot'[w] \in Feedbacks)
            => \E k \in Conns :
                 /\ Consumes(k)
                 /\ Head(inbox[k]).kind = "UserFeedback"
                 /\ Head(inbox[k]).review = wrev[w]
                 /\ Head(inbox[k]).payload = wslot'[w]]_vars
  /\ [][\A w \in Waiters :
          (wresult[w] \notin Feedbacks /\ wresult'[w] \in Feedbacks)
            => wslot[w] = wresult'[w]]_vars
  /\ [][\A k \in Conns :
          (Consumes(k) /\ Head(inbox[k]).kind = "Response")
            => (pending_feedback' = pending_feedback /\ wslot' = wslot)]_vars
  /\ [][\A k \in Conns :
          (Consumes(k) /\ Head(inbox[k]).kind = "UserFeedback")
            => (pending_requests' = pending_requests /\ slot' = slot)]_vars

\* a waiter has returned its feedback while a request whose id is the
\* message id of the UserFeedback line is still registered
C16_Witness ==
  /\ \E w \in Waiters : wpc[w] = "done" /\ wresult[w] \in Feedbacks
  /\ 1 \in pending_requests

\* C17 (as claimed): in the step where shutdown() returns Ok, every caller
\* blocked in wait_for_user_feedback has had its slot dropped and no review
\* id is left in the feedback map.
C17_ShutdownDrops ==
  [][\A c \in Calls :
       (op[c] = "shutdown" /\ pc[c] # "done" /\ pc'[c] = "done"
          /\ result'[c] = "Ok")
         => /\ \A r \in Reviews : pending_feedback'[r] = None
            /\ \A w \in Waiters : wpc'[w] = "await" => wslot'[w] = "closed"]_vars

\* C19: the step in which the reader takes a line it cannot use (not
\* UTF-8, not an envelope, or a payload that does not parse for its kind)
\* leaves the reader in its loop and connected, the write handle, both
\* maps and every registered slot unchanged.
C19_BadLine ==
  [][\A k \in Conns :
       (Consumes(k) /\ BadLine(Head(inbox[k])))
         => /\ rpc'[k] = "reading"
            /\ connected' = connected
            /\ write_half' = write_half
            /\ pending_requests' = pending_requests
            /\ pending_feedback' = pending_feedback
            /\ slot' = slot
            /\ wslot' = wslot]_vars

\* a line was skipped; the reader is in its loop, connected, with a request
\* and a feedback slot still registered
C19_Witness ==
  /\ skipped
  /\ connected
  /\ write_half # None
  /\ rpc[write_half] = "reading"
  /\ pending_requests # {}
  /\ \E r \in Reviews : pending_feedback[r] # None


\* C12 (as claimed): every call that was started returns.
C12_Returns ==
  \A c \in AllCalls : (pc[c] # "idle") ~> (pc[c] = "done")


\* the line just written on the connection is one Polo of this manager
OnePolo ==
  /\ write_half # None
  /\ outbox' = [outbox EXCEPT ![write_half] =
                  Append(@, Line("Polo", terminal_shell_pid))]

\* C18: the reader task that takes a Marco line on a live connection
\* writes exactly one Polo line carrying the manager's terminal_shell_pid,
\* in that step or, when the socket buffer is full, in the step that ends
\* its write_all; no caller moves in these steps, and the manager's lines
\* change in no other step of the reader.
C18_AutoPolo ==
  /\ [][\A k \in Conns :
          (Consumes(k) /\ Head(inbox[k]).kind = "Marco" /\ connAlive[k])
            => /\ pc' = pc
               /\ \/ OnePolo /\ rpc'[k] = "reading"
                  \/ outbox' = outbox /\ rpc'[k] = "writing"]_vars
  /\ [][\A k \in Conns :
          (rpc[k] = "writing" /\ rpc'[k] # "writing")
            => (pc' = pc /\ OnePolo /\ rpc'[k] = "reading")]_vars
  /\ [][\A k \in Conns :
          (Consumes(k) /\ Head(inbox[k]).kind # "Marco")
            => outbox' = outbox]_vars

\* a Polo of this manager is on the wire and no call was ever made
C18_Witness ==
  /\ \E k \in Conns : \E i \in DOMAIN outbox[k] :
       outbox[k][i] = Line("Polo", terminal_shell_pid)
  /\ \A c \in Calls : pc[c] = "idle"


\* C21 (as claimed): a bind that fails with a conflict finds a daemon for
\* the same owner id running, and once every daemon that claimed the path
\* has ended (by the death of its owner, the abort of its task or a crash)
\* the path can be claimed again.
C21_ClaimConflict ==
  /\ [][\A d \in Daemons :
          (dpc[d] = "idle" /\ dpc'[d] = "failed")
            => \E e \in Daemons : e # d /\ Holds(e)]_vars
  /\ [](((\E d \in Daemons : dpc[d] \in {"done", "killed"})
           /\ \A e \in Daemons : ~Holds(e))
          => BindSucceeds)


\* C22: a handler finishes only on a fault of its own connection (EOF, a
\* read error or a write error), and the step that ends it changes neither
\* the daemon's loop nor any other handler and its connection; with a
\* handler finished, the loop still accepts every queued connection and
\* every other running handler still takes the lines its peer wrote and
\* the lines the channel holds for it.
C22_Isolation ==
  /\ [][\A h \in Clients :
          (hpc[h] # "finished" /\ hpc'[h] = "finished")
            => /\ hpc[h] = "running"
               /\ peer[h] # "open"
               /\ dpc' = dpc
               /\ \A b \in Clients \ {h} :
                    /\ hpc'[b] = hpc[b]
                    /\ cur'[b] = cur[b]
                    /\ cin'[b] = cin[b]
                    /\ part'[b] = part[b]
                    /\ cout'[b] = cout[b]]_vars
  /\ [](\A h \in Clients :
          hpc[h] = "finished" =>
            /\ dpc[hd[h]] = "loop"
            /\ \A b \in Clients :
                 (hpc[b] = "queued" /\ hd[b] = hd[h])
                   => ENABLED Accept(hd[h], b)
            /\ \A b \in Clients :
                 (hpc[b] = "running" /\ cin[b] # <<>>)
                   => ENABLED HandlerRead(b)
            /\ \A b \in Clients :
                 (hpc[b] = "running" /\ peer[b] = "open"
                    /\ cur[b] <= Len(bus[hd[b]]))
                   => ENABLED HandlerRecv(b))

\* a handler has finished on a fault of its connection; a line its peer
\* wrote before, and a line written after it finished, have both been
\* delivered to another client
C22_Witness ==
  \E h \in Clients, b \in Clients :
    /\ h # b
    /\ hpc[h] = "finished"
    /\ hpc[b] = "running"
    /\ \E l1 \in Range(cout[b]), l2 \in Range(cout[b]) :
         /\ l1 < l2
         /\ writer[l1] = h
         /\ h \in audience[l1]
         /\ h \notin audience[l2]


\* the socket of the peer of handler b can take a whole line
OwnRoom(b) == Len(rbuf[b]) < MaxUnread /\ FirstBytes \notin Range(rbuf[b])

\* C23: a handler in its select! always takes a line its peer has written
\* and publishes it, whatever the other handlers are doing; whether a
\* handler can write a line of the channel to its peer depends on the
\* socket of that peer alone: it takes the next line whenever it is in its
\* select!, it enters write_all only when its own peer's socket has no
\* room for the line, and it leaves write_all as soon as that socket has
\* room, while other handlers stay in write_all; and a subscription that
\* lags skips to the oldest line the channel still holds, its handler
\* running on with a line to take.
C23_SlowPeer ==
  /\ [](\A h \in Clients :
          (hpc[h] = "running" /\ cin[h] # <<>>) => ENABLED HandlerRead(h))
  /\ [](\A b \in Clients :
          /\ (hpc[b] = "running" /\ cur[b] <= Len(bus[hd[b]]))
               => ENABLED HandlerSend(b, TRUE)
          /\ (hpc[b] = "writing" /\ OwnRoom(b))
               => ENABLED HandlerSendResume(b))
  /\ [][\A b \in Clients :
          (hpc[b] = "running" /\ hpc'[b] = "writing")
            => (Len(rbuf[b]) >= MaxUnread
                  \/ FirstBytes \in Range(rbuf'[b]))]_vars
  /\ [][\A h \in Clients :
          (hpc[h] = "running"
             /\ Len(bus[hd[h]]) - cur[h] + 1 > BacklogCapacity
             /\ cur'[h] # cur[h])
            => /\ hpc'[h] = "running"
               /\ cur'[h] = Len(bus[hd[h]]) - BacklogCapacity + 1
               /\ cur'[h] <= Len(bus'[hd[h]])
               /\ cout'[h] = cout[h]]_vars

\* the handler of the slow peer is in write_all, the slow peer's socket
\* being full, and the line it is writing has been written to another
\* client
C23_Witness ==
  \E b \in Clients \ {SlowPeer} :
    /\ hpc[SlowPeer] = "writing"
    /\ hpc[b] = "running"
    /\ bus[hd[SlowPeer]][cur[SlowPeer] - 1] \in Range(cout[b])

\* C24 (as claimed): a line a peer has written in full to a connection
\* that has its handler is read and published by that handler, whether or
\* not the peer reads what the handler writes to it.
C24_Concurrent ==
  \A h \in Clients : \A l \in Lines :
    (hpc[h] \in {"running", "writing"}
       /\ \E i \in DOMAIN cin[h] : cin[h][i] = WholeLine(l))
      ~> (\E d \in Daemons : l \in Range(bus[d]))


\* sequence p is the beginning of sequence q
IsPrefix(p, q) ==
  /\ Len(p) <= Len(q)
  /\ \A i \in DOMAIN p : p[i] = q[i]

C25_OnlyResponse ==
  /\ [][\A c \in Calls :
          (slot[c] \notin Payloads /\ slot'[c] \in Payloads)
            => \E k \in Conns :
                 /\ Consumes(k)
                 /\ Head(inbox[k]).kind = "Response"
                 /\ Head(inbox[k]).id = c
                 /\ Head(inbox[k]).payload = slot'[c]]_vars
  /\ [][\A k \in Conns :
          (Consumes(k)
             /\ \/ Head(inbox[k]).kind \in Unhandled
                \/ /\ Head(inbox[k]).kind = "Response"
                   /\ Head(inbox[k]).id \notin pending_requests)
            => /\ pending_requests' = pending_requests
               /\ pending_feedback' = pending_feedback
               /\ slot' = slot
               /\ wslot' = wslot
               /\ connected' = connected
               /\ write_half' = write_half
               /\ outbox' = outbox
               /\ pc' = pc
               /\ wpc' = wpc]_vars

\* the reader has taken the echo of a request whose caller is still
\* waiting, its slot registered and empty
C25_Witness ==
  \E c \in Calls :
    /\ c \in echoed
    /\ pc[c] = "await"
    /\ c \in pending_requests
    /\ slot[c] = "open"


\* C26: a write on a connection whose remote end has died, the manager
\* still holding it for connected, fails for the caller that made it and
\* changes nothing else: connected, the write handle, the request map and
\* every other caller are as before; connected becomes false, and the
\* write handle is dropped, only in the step of
\* clear_connection_and_reconnect that the reader task has spawned.
C26_StaleWrite ==
  /\ [][\A c \in Calls :
          (pc[c] = "write" /\ pc'[c] = "done" /\ result'[c] = "WriteError")
            => /\ write_half # None
               /\ ~connAlive[write_half]
               /\ connected' = connected
               /\ write_half' = write_half
               /\ pending_requests' = pending_requests
               /\ reconPending' = reconPending
               /\ rpc' = rpc
               /\ \A d \in AllCalls \ {c} :
                    /\ pc'[d] = pc[d]
                    /\ result'[d] = result[d]
                    /\ slot'[d] = slot[d]]_vars
  /\ [][((connected /\ ~connected')
           \/ (write_half # None /\ write_half' # write_half))
          => (reconPending > 0 /\ reconPending' = reconPending - 1)]_vars

\* a caller has got the error of a write on a connection that is dead and
\* that the manager still holds for connected, the reader not having
\* noticed
C26_Witness ==
  \E c \in Calls :
    /\ pc[c] = "done"
    /\ result[c] = "WriteError"
    /\ connected
    /\ write_half # None
    /\ ~connAlive[write_half]
    /\ rpc[write_half] = "reading"


\* every call in progress is waiting for its slot
AllWaiting ==
  /\ \A c \in AllCalls : pc[c] \in {"idle", "await", "done"}
  /\ \A w \in Waiters : wpc[w] \in {"idle", "await", "done"}

\* C27: the state mutex is never held by a caller that is awaiting its
\* reply slot or its feedback slot: while every call in progress is
\* waiting the mutex is free, and the reader task takes at once a Response
\* or a UserFeedback line that has come.
C27_NoLockWhileWaiting ==
  /\ [](\A c \in AllCalls :
          pc[c] = "await" => (lock = Free \/ lock.id # c
                                \/ lock.kind \notin {"ensure", "write"}))
  /\ [](AllWaiting => lock = Free)
  /\ [](\A k \in Conns :
          (AllWaiting /\ rpc[k] = "reading" /\ inbox[k] # <<>>)
            => /\ (Head(inbox[k]).kind = "Response"
                     /\ Head(inbox[k]).payload \in Payloads)
                    => ENABLED ReaderResponse(k)
               /\ (Head(inbox[k]).kind = "UserFeedback"
                     /\ Head(inbox[k]).payload \in Feedbacks)
                    => ENABLED ReaderFeedback(k))

\* a caller and a waiter are both waiting, and the reader has resolved
\* the caller's slot meanwhile
C27_Witness ==
  /\ \E c \in Calls : pc[c] = "await" /\ slot[c] \in Payloads
  /\ \E w \in Waiters : wpc[w] = "await" /\ wslot[w] = "open"


\* C28 (as claimed): the handle of every handler that has finished is
\* removed from the `clients` map, whatever connections arrive and
\* whenever the interval ticks.
C28_Reaping ==
  \A h \in Clients :
    (hpc[h] = "finished" /\ h \notin reaped) ~> (h \in reaped)


\* the line as the peer wrote it, without its terminator
Received(t) ==
  IF t # <<>> /\ t[Len(t)] = Terminator THEN SubSeq(t, 1, Len(t) - 1) ELSE t

\* C30 (as claimed): a line that is not empty is re-published exactly as
\* it was received, without its terminator and with no character added,
\* removed or changed, and goes to the peers followed by one terminator;
\* an empty line is not published.
C30_Verbatim ==
  /\ lpc \in {"sent", "dropped", "written"} =>
       sent = IF Received(line) # <<>> THEN <<Received(line)>> ELSE <<>>
  /\ lpc = "written" => wire = Append(Received(line), Terminator)


\* C31 (as claimed): the removal of the socket file never fails the
\* shutdown; when the file is gone, also when it goes between the check
\* and the removal, run_daemon_with_prefix returns Ok.
C31_BestEffort == \A d \in Daemons : dpc[d] # "remove_failed"


\* C32: a call of attempt_connection_with_backoff makes at most 5 connect
\* attempts; after the failed attempt k, 1 <= k <= 4, it sleeps 100 * 2^(k-1)
\* ms (100, 200, 400, 800); after the 5th failure it does not sleep and
\* returns ConnectionFailed with connected false and no write handle, the
\* state from which a later operation starts a new call.
C32_Backoff ==
  [][LET Schedule == <<100, 200, 400, 800>>
         Running == lock.kind \in {"ensure", "recon"}
     IN  /\ attempt' \in 0..5
         /\ Len(delays') <= 4
         /\ Running /\ attempt' = attempt + 1 =>
              /\ attempt \in 1..4
              /\ delays' = Append(delays, Schedule[attempt])
              /\ delays' = SubSeq(Schedule, 1, attempt)
              /\ ~connected' /\ write_half' = None
         /\ Running /\ lock' = Free /\ ~connected' =>
              /\ attempt = 5
              /\ delays = Schedule
              /\ delays' = delays
              /\ write_half' = None
              /\ lock.kind = "ensure" => result'[lock.id] = "ConnectionFailed"
              /\ AttemptPrecondition'
         /\ (\E c \in AllCalls : result[c] # "ConnectionFailed"
                                 /\ result'[c] = "ConnectionFailed") =>
              Running /\ attempt = 5]_vars

C32_Witness ==
  /\ \E c \in AllCalls : result[c] = "ConnectionFailed"
  /\ delays = <<100, 200, 400, 800>>
  /\ ~connected /\ write_half = None /\ lock = Free


\* C33: every call of attempt_connection_with_backoff, by ensure_connection
\* or by the reader's reconnect task, in every interleaving, finds
\* connected false and no write handle: neither assertion fails, no caller
\* and no reconnect task panics there.
C33_Assertions ==
  [][/\ \A c \in AllCalls : result'[c] # "Panic"
     /\ attempt = 0 /\ attempt' = 1 =>
          /\ lock'.kind \in {"ensure", "recon"}
          /\ ~connected' /\ write_half' = None
     /\ reconPending' < reconPending =>
          attempt' = 1 /\ lock'.kind = "recon"
     /\ \A c \in AllCalls :
          pc[c] = "ensure" /\ pc'[c] # "ensure" /\ ~connected =>
            attempt' = 1 /\ lock' = Holder("ensure", c)
     /\ lock' = Free => (connected' <=> write_half' # None)]_vars

\* the reconnect task is inside the function while a caller is about to
\* call ensure_connection
C33_Witness ==
  /\ lock.kind = "recon"
  /\ attempt >= 1
  /\ \E c \in AllCalls : pc[c] = "ensure"
  /\ nextConn > 1


\* C34: the loop of run_message_bus ends only in a probe that finds no
\* owner process (ESRCH); errors of accept, other errors of the probe,
\* disconnects and failures of handlers leave it running, and the path
\* stays claimed while the owner lives.
C34_OnlyOwnerDeath ==
  [][\A d \in Daemons :
       /\ dpc[d] = "loop" /\ dpc'[d] # "loop" =>
            ~ownerAlive /\ dpc'[d] = "stopped"
       /\ dpc[d] = "loop" /\ ownerAlive' =>
            dpc'[d] = "loop" /\ sockFile' = d]_vars

\* the loop runs on after a handler has failed and was reaped and the
\* interval has ticked
C34_Witness ==
  /\ dpc[1] = "loop"
  /\ ownerAlive
  /\ reaped # {}
  /\ \E h \in Clients : peer[h] = "reset" /\ h \in reaped
  /\ sinceTick < PROBE_INTERVAL


\* C35: the eviction at a disconnect empties the request map and nothing
\* else: the feedback map and the slots of the waiting callers are as they
\* were, and a UserFeedback line for a registered review id, on whatever
\* connection it arrives, is put in the slot of the caller that waits.
C35_FeedbackSurvives ==
  /\ [][reconPending' < reconPending =>
          /\ pending_requests' = {}
          /\ pending_feedback' = pending_feedback
          /\ wslot' = wslot
          /\ wpc' = wpc]_vars
  /\ [][\A k \in Conns, w \in Waiters :
          /\ Consumes(k)
          /\ kills' = kills
          /\ Head(inbox[k]).kind = "UserFeedback"
          /\ Head(inbox[k]).payload \in Feedbacks
          /\ Head(inbox[k]).review = wrev[w]
          /\ pending_feedback[wrev[w]] = w
          /\ wpc[w] = "await"
          => /\ wslot'[w] = Head(inbox[k]).payload
             /\ pending_feedback'[wrev[w]] = None]_vars

\* the first connection was lost and replaced, the eviction was made, and
\* the reader of the second connection is about to take a UserFeedback
\* line for the review id of a caller whose slot is registered and open
C35_Witness ==
  /\ kills = 1
  /\ rpc[1] = "done" /\ reconPending = 0 /\ lock = Free
  /\ rpc[2] = "reading" /\ connected /\ write_half = 2
  /\ \E w \in Waiters :
       /\ wpc[w] = "await" /\ wslot[w] = "open"
       /\ pending_feedback[wrev[w]] = w
       /\ inbox[2] # <<>>
       /\ Head(inbox[2]).kind = "UserFeedback"
       /\ Head(inbox[2]).review = wrev[w]
       /\ Head(inbox[2]).payload \in Feedbacks


\* C36 (as claimed): when two callers wait on one review id, the failure of
\* one and the cleanup it makes leave the slot the other has registered in
\* the feedback map, with its channel open.
C36_SameReview ==
  [][\A w, v \in Waiters :
       /\ w # v
       /\ wpc[w] = "await" /\ wpc'[w] = "done"
       /\ wresult'[w] = "ConnectionFailed"
       /\ wrev[v] = wrev[w]
       /\ pending_feedback[wrev[w]] = v
       => /\ pending_feedback'[wrev[w]] = v
          /\ wslot'[v] = wslot[v]]_vars


\* the chunk at position i of connection k is a newline, or is followed
\* directly by the newline of its own writer, or is the last chunk written
Framed(k) ==
  \A i \in 1..Len(stream[k]) :
    stream[k][i].t = "data" =>
      \/ i < Len(stream[k]) /\ stream[k][i + 1] = Nl(stream[k][i].of)
      \/ i = Len(stream[k])

\* C37: the envelopes written by the callers of one manager and by the
\* reader's Polo do not interleave on a connection: the bytes of each are
\* followed directly by its own newline; while the data of an envelope is
\* the last thing written, its writer holds the state mutex.
C37_NoInterleave ==
  /\ \A k \in Conns : Framed(k)
  /\ \A k \in Conns :
       /\ stream[k] # <<>>
       /\ stream[k][Len(stream[k])].t = "data"
       /\ connAlive[k]
       => /\ write_half = k
          /\ lock.kind \in {"write", "polo"}
  /\ \A w \in Writers : wrpc[w] = "newline" => lock = Holder("write", w)
  /\ \A k \in Conns : rpc[k] = "polo_newline" => lock = Holder("polo", k)

\* two callers and the reader's Polo have written to one connection
C37_Witness ==
  \E k \in Conns :
    /\ Len(stream[k]) = 6
    /\ \A w \in Writers : Data(Holder("write", w)) \in Range(stream[k])
    /\ Data(Holder("polo", k)) \in Range(stream[k])
    /\ stream[k][6].t = "nl"


\* C38: the subscription of a client starts at its accept: the receiver
\* stands behind every line published so far; from then on it moves forward
\* only, one line at a time unless it lags, and each line it passes is
\* written to the client. So a client without lag has been sent exactly the
\* lines published since its accept up to its receiver, the later ones are
\* still ahead of the receiver, and no line published before the accept is
\* sent to it.
C38_Subscription ==
  /\ [][\A h \in Clients :
          hpc[h] = "queued" /\ hpc'[h] = "running" =>
            /\ cur'[h] = Len(bus[hd[h]]) + 1
            /\ cout'[h] = <<>>]_vars
  /\ [][\A h \in Clients :
          hpc[h] = "running" /\ hpc'[h] = "running" =>
            /\ cur'[h] >= cur[h]
            /\ cur'[h] # cur[h] /\ ~lagged'[h] =>
                 /\ cur'[h] = cur[h] + 1
                 /\ cout'[h] = Append(cout[h], bus[hd[h]][cur[h]])
            /\ cout'[h] # cout[h] =>
                 cout'[h] = Append(cout[h], bus[hd[h]][cur[h]])]_vars
  /\ [](\A h \in Clients :
          hpc[h] = "running" =>
            /\ cur[h] <= Len(bus[hd[h]]) + 1
            /\ Len(cout[h]) < cur[h]
            /\ ~lagged[h] =>
                 cout[h] = SubSeq(bus[hd[h]], cur[h] - Len(cout[h]),
                                  cur[h] - 1))

\* a client accepted after a line was published has been sent a line
\* published later, and not the earlier one
C38_Witness ==
  \E h \in Clients :
    /\ hpc[h] = "running" /\ ~lagged[h]
    /\ cout[h] # <<>>
    /\ cur[h] - Len(cout[h]) > 1
    /\ bus[hd[h]][1] \notin Range(cout[h])


\* the lines written so far, published or not
AllLines == Range(chan) \cup UNION {Range(up[c]) : c \in Clients}

\* nothing is on its way and no reader has a line left to handle
Quiet ==
  /\ \A c \in Clients : up[c] = <<>>
  /\ \A c \in Clients : seen[c] = Len(chan)

\* C39: an automatic envelope is a Polo that answers a Marco; Polo,
\* Goodbye, Response, UserFeedback and the requests that come back trigger
\* nothing. Each Marco is answered at most once by each client, so by at
\* most N Polos for N clients, and once the callers have stopped sending
\* the bus becomes quiet and stays so.
C39_NoCascade ==
  /\ [](\A e \in AllLines :
          e.cause # None =>
            /\ e.kind = "Polo"
            /\ e.cause \in 1..Len(chan)
            /\ chan[e.cause].kind = "Marco"
            /\ chan[e.cause].cause = None)
  /\ [](\A i \in 1..Len(chan) :
          /\ Cardinality({e \in AllLines : e.cause = i})
               <= Cardinality(Clients)
          /\ \A c \in Clients :
               Cardinality({e \in AllLines : e.cause = i /\ e.by = c}) <= 1)
  /\ [](Cardinality({i \in 1..Len(chan) : chan[i].cause # None})
          <= Cardinality(Clients)
               * Cardinality({i \in 1..Len(chan) : chan[i].kind = "Marco"}))
  /\ [][\A c \in Clients :
          seen'[c] # seen[c] /\ chan[seen[c] + 1].kind # "Marco" =>
            up' = up /\ chan' = chan]_vars
  /\ <>[]Quiet

\* a Marco has been answered by every client, its sender included, the
\* Polos have reached everyone and nothing more is on its way
C39_Witness ==
  /\ Quiet
  /\ \E i \in 1..Len(chan) :
       /\ chan[i].kind = "Marco"
       /\ \A c \in Clients :
            \E j \in 1..Len(chan) : chan[j] = Envelope("Polo", c, i)

====
